---- MODULE Spec2Model ----
(***************************************************************************)
(* Model of the Sudan-MM submission workflow: the ledger ID allocation of  *)
(* sheets_api.py / app.py and the upload-then-record sequence of           *)
(* app.py main().  Strings are sequences of one-character strings so that  *)
(* strip / startswith / split / int / str are computed, not assumed.       *)
(***************************************************************************)
EXTENDS Integers, Sequences, FiniteSets, TLC

\* ------------------------------------------------------------------ bounds
MaxRows == 3            \* rows of a tab drawn by the ID-allocation specification
MaxSubmissions == 2     \* submissions started in one behaviour of the workflow

\* ------------------------------------------------------- python primitives
Digits == <<"0", "1", "2", "3", "4", "5", "6", "7", "8", "9">>

IsDigit(c) == \E i \in 1..10 : Digits[i] = c

DigitVal(c) == (CHOOSE i \in 1..10 : Digits[i] = c) - 1

IsSpace(c) == c = " "

RECURSIVE LStrip(_)
LStrip(s) == IF s # <<>> /\ IsSpace(Head(s)) THEN LStrip(Tail(s)) ELSE s

RECURSIVE RStrip(_)
RStrip(s) ==
  IF s # <<>> /\ IsSpace(s[Len(s)]) THEN RStrip(SubSeq(s, 1, Len(s) - 1)) ELSE s

\* str.strip()
Strip(s) == RStrip(LStrip(s))

\* str.startswith(prefix)
StartsWith(s, prefix) ==
  /\ Len(s) >= Len(prefix)
  /\ SubSeq(s, 1, Len(prefix)) = prefix

\* str.split('_'): the sequence of segments between underscores
RECURSIVE SplitFrom(_, _, _)
SplitFrom(s, i, cur) ==
  IF i > Len(s) THEN <<cur>>
  ELSE IF s[i] = "_" THEN <<cur>> \o SplitFrom(s, i + 1, <<>>)
  ELSE SplitFrom(s, i + 1, Append(cur, s[i]))

Split(s) == SplitFrom(s, 1, <<>>)

RECURSIVE DecimalValue(_, _)
DecimalValue(s, acc) ==
  IF s = <<>> THEN acc ELSE DecimalValue(Tail(s), acc * 10 + DigitVal(Head(s)))

AllDigits(s) == s # <<>> /\ \A i \in 1..Len(s) : IsDigit(s[i])

\* int(text): surrounding whitespace and one sign are accepted; anything else
\* is a ValueError (ok = FALSE)
PyInt(text) ==
  LET t == Strip(text)
      signed == t # <<>> /\ Head(t) \in {"+", "-"}
      body == IF signed THEN Tail(t) ELSE t
  IN IF AllDigits(body)
       THEN [ok |-> TRUE,
             val |-> IF signed /\ Head(t) = "-" THEN 0 - DecimalValue(body, 0)
                     ELSE DecimalValue(body, 0)]
       ELSE [ok |-> FALSE, val |-> 0]

\* str(n) of a non-negative integer
RECURSIVE PyStr(_)
PyStr(n) == IF n < 10 THEN <<Digits[n + 1]>> ELSE PyStr(n \div 10) \o <<Digits[(n % 10) + 1]>>

\* faulty variant: min() where max() was meant
PyMin(a, b) == IF b < a THEN b ELSE a

PyMax(a, b) == IF b > a THEN b ELSE a

Range(q) == {q[i] : i \in 1..Len(q)}

\* ------------------------------------------------------------ the ledger
Modes == {"Image", "Video"}

TabNames == {"Images", "Videos"}

\* faulty variant: every row goes to the Images tab
sheet_name_images(m) == "Images"

sheet_name(m) == IF m = "Image" THEN "Images" ELSE "Videos"

prefix(m) == IF m = "Image" THEN <<"i", "m", "g", "_">> ELSE <<"v", "i", "d", "_">>

headers == << <<"id">>, <<"file_link">>, <<"msa_caption">>, <<"sudanese_caption">>,
              <<"audio_file_link">>, <<"category">> >>

\* values().get(...).execute().get('values', [])
read_sheet(sheets, name) == sheets[name]

\* faulty variant: the row is written over the last row instead of below it
append_row_overwrite(rows, row_data) ==
  IF rows = <<>> THEN <<row_data>> ELSE [rows EXCEPT ![Len(rows)] = row_data]

\* faulty variant: the row is inserted above the rows of the tab
append_row_prepend(rows, row_data) == <<row_data>> \o rows

\* values().append(range = "<tab>!A:A"): the row lands below the last row
append_row(rows, row_data) == Append(rows, row_data)

\* one iteration of the for-loop of get_max_id
ScanRow(max_so_far, row, pfx) ==
  IF row # <<>> /\ Len(row) > 0
    THEN LET id_str == Strip(row[1])
         IN IF StartsWith(id_str, pfx)
              THEN LET parts == Split(id_str)
                   IN IF Len(parts) < 2 THEN max_so_far            \* IndexError
                      ELSE LET num == PyInt(parts[2])
                           IN IF num.ok THEN PyMax(max_so_far, num.val)
                              ELSE max_so_far                      \* ValueError
              ELSE max_so_far
    ELSE max_so_far

RECURSIVE ScanRows(_, _, _, _)
ScanRows(rows, i, max_so_far, pfx) ==
  IF i > Len(rows) THEN max_so_far
  ELSE ScanRows(rows, i + 1, ScanRow(max_so_far, rows[i], pfx), pfx)

\* faulty variant: the first row is scanned like every other row
get_max_id_from_first(sheets, m) ==
  LET rows == read_sheet(sheets, sheet_name(m))
  IN IF Len(rows) < 1 THEN 0
     ELSE ScanRows(rows, 1, 0, prefix(m))

get_max_id(sheets, m) ==
  LET rows == read_sheet(sheets, sheet_name(m))
  IN IF Len(rows) <= 1 THEN 0
     ELSE ScanRows(rows, 2, 0, prefix(m))

next_id_num(sheets, m) == get_max_id(sheets, m) + 1

get_next_id(sheets, m) == prefix(m) \o PyStr(next_id_num(sheets, m))

\* ------------------------------------------------------------------ state
Sessions == {1, 2}

VARIABLES
  sheet_exists,   \* the spreadsheet is found by find_spreadsheet_by_name
  tabs,           \* tab name -> rows of the tab, each row a sequence of cells
  drive,          \* files in storage: [folder, name, sid]
  initialized,    \* st.session_state.initialized of each session
  pc,             \* position of each session inside main()
  form,           \* the submitted form of each session
  max_id,         \* get_next_id: local max_id
  next_id,        \* main: local next_id
  steps,          \* steps of the running submission that completed, in order
  message,        \* what the session shows: "none", "error" or "success"
  sid,            \* number of the submission a session is processing
  started,        \* submissions started so far
  errors,         \* main: local errors, the required fields found missing
  tmp,            \* the two temporary files of the running submission
  call            \* one call of a validator or of safe_delete_file and its result

vars == <<sheet_exists, tabs, drive, initialized, pc, form, max_id, next_id,
          steps, message, sid, started, errors, tmp, call>>

NoDuration == 0 - 1     \* the decoder returned no duration (None)

NoForm == [mode |-> "Image", media_file |-> FALSE, media_ext |-> <<>>,
           media_seconds |-> NoDuration, audio_file |-> FALSE, audio_ext |-> <<>>,
           audio_seconds |-> NoDuration, msa_caption |-> <<>>, sudanese_caption |-> <<>>,
           category |-> <<>>]

NoTemp == [path |-> FALSE, file |-> "none", del |-> FALSE]

NoTemps == [media |-> NoTemp, audio |-> NoTemp]

NoCall == [fn |-> "none"]

HeaderOnly == [t \in TabNames |-> <<headers>>]

NoTabs == [t \in TabNames |-> <<>>]

\* ----------------------------------------------------------- validation
LowerCase == <<"a", "b", "c", "d", "e", "f", "g", "h", "i", "j", "k", "l", "m",
               "n", "o", "p", "q", "r", "s", "t", "u", "v", "w", "x", "y", "z">>

UpperCase == <<"A", "B", "C", "D", "E", "F", "G", "H", "I", "J", "K", "L", "M",
               "N", "O", "P", "Q", "R", "S", "T", "U", "V", "W", "X", "Y", "Z">>

LowerChar(c) ==
  IF \E i \in 1..26 : UpperCase[i] = c
    THEN LowerCase[CHOOSE i \in 1..26 : UpperCase[i] = c]
    ELSE c

\* str.lower()
Lower(s) == [i \in 1..Len(s) |-> LowerChar(s[i])]

ext_jpg == <<".", "j", "p", "g">>
ext_jpeg == <<".", "j", "p", "e", "g">>
ext_png == <<".", "p", "n", "g">>
ext_mp4 == <<".", "m", "p", "4">>
ext_mp3 == <<".", "m", "p", "3">>

\* index of the last occurrence of c in s, 0 when there is none
LastIndexOf(s, c) ==
  IF \E i \in 1..Len(s) : s[i] = c
    THEN CHOOSE i \in 1..Len(s) : s[i] = c /\ \A j \in (i + 1)..Len(s) : s[j] # c
    ELSE 0

\* os.path.splitext(path)[1]: from the last dot of the last component, unless
\* only dots precede it there
SplitExt(path) ==
  LET sep == LastIndexOf(path, "/")
      dot == LastIndexOf(path, ".")
  IN IF dot > sep /\ \E i \in (sep + 1)..(dot - 1) : path[i] # "."
       THEN SubSeq(path, dot, Len(path))
       ELSE <<>>

\* tempfile.NamedTemporaryFile(delete=False, suffix=suffix).name
temp_path(suffix) == <<"/", "t", "m", "p", "/", "t", "m", "p", "a", "1">> \o suffix

file_type_image == <<"i", "m", "a", "g", "e">>
file_type_video == <<"v", "i", "d", "e", "o">>

\* faulty variant: the extension is compared without lower-casing it
validate_media_file_case_sensitive(exists, file_path, file_type) ==
  IF ~exists THEN FALSE
  ELSE IF file_type = file_type_image
    THEN SplitExt(file_path) \in {ext_jpg, ext_jpeg, ext_png}
  ELSE IF file_type = file_type_video
    THEN SplitExt(file_path) = ext_mp4
  ELSE FALSE

\* validate_media_file: is_valid
validate_media_file(exists, file_path, file_type) ==
  IF ~exists THEN FALSE
  ELSE IF file_type = file_type_image
    THEN Lower(SplitExt(file_path)) \in {ext_jpg, ext_jpeg, ext_png}
  ELSE IF file_type = file_type_video
    THEN Lower(SplitExt(file_path)) = ext_mp4
  ELSE FALSE

\* validate_audio_file: is_valid
validate_audio_file(exists, file_path) ==
  IF ~exists THEN FALSE
  ELSE Lower(SplitExt(file_path)) = ext_mp3

mode_chars(m) == IF m = "Image" THEN <<"I", "m", "a", "g", "e">> ELSE <<"V", "i", "d", "e", "o">>

video_min_seconds == 3
video_max_seconds == 10
audio_min_seconds == 5
audio_max_seconds == 15

\* faulty variant: a duration equal to the minimum is rejected
validate_duration_open(d, min_seconds, max_seconds) ==
  IF d = NoDuration THEN <<FALSE, "could not read", NoDuration>>
  ELSE IF d <= min_seconds THEN <<FALSE, "less than minimum", d>>
  ELSE IF d > max_seconds THEN <<FALSE, "exceeds maximum", d>>
  ELSE <<TRUE, "", d>>

\* the comparisons of validate_video_duration / validate_audio_duration on the
\* duration d the decoder gave: <<is_valid, error, duration>>
validate_duration(d, min_seconds, max_seconds) ==
  IF d = NoDuration THEN <<FALSE, "could not read", NoDuration>>
  ELSE IF d < min_seconds THEN <<FALSE, "less than minimum", d>>
  ELSE IF d > max_seconds THEN <<FALSE, "exceeds maximum", d>>
  ELSE <<TRUE, "", d>>

\* what one run of a decoder can end with besides a duration
DecoderFailures == {"missing", "timeout", "nonzero", "no_duration"}

\* the failures drawn inside a submission
SubmissionFailures == {"missing", "no_duration"}

DecoderRuns(failures, durations) ==
  {[kind |-> k, duration |-> NoDuration] : k \in failures}
    \cup {[kind |-> "ok", duration |-> d] : d \in durations \ {NoDuration}}

NotRun == [kind |-> "not_run", duration |-> NoDuration]

\* the runs of a decoder that is started only when `started` holds
RunsAfter(is_started, durations) ==
  IF is_started THEN DecoderRuns(SubmissionFailures, durations) ELSE {NotRun}

\* _get_media_duration_ffprobe: the duration, None on every failure
get_media_duration_ffprobe(run) == IF run.kind = "ok" THEN run.duration ELSE NoDuration

\* faulty variant: the result of the first decoder is final
validate_audio_duration_no_fallback(mutagen, ffprobe, min_seconds, max_seconds) ==
  [result |-> validate_duration(get_media_duration_ffprobe(mutagen), min_seconds, max_seconds),
   invoked |-> <<"mutagen">>]

\* validate_video_duration: `ffprobe -version` first (only a missing or hanging
\* binary is caught there), then the duration is asked of ffprobe
validate_video_duration(version, ffprobe, min_seconds, max_seconds) ==
  IF version \in {"missing", "timeout"}
    THEN [result |-> <<FALSE, "ffprobe is not installed", NoDuration>>,
          invoked |-> <<"ffprobe -version">>]
    ELSE [result |-> validate_duration(get_media_duration_ffprobe(ffprobe),
                                       min_seconds, max_seconds),
          invoked |-> <<"ffprobe -version", "ffprobe">>]

\* validate_audio_duration: mutagen first, ffprobe when mutagen is missing,
\* raises or returns no file object
validate_audio_duration(mutagen, ffprobe, min_seconds, max_seconds) ==
  IF mutagen.kind = "ok"
    THEN [result |-> validate_duration(mutagen.duration, min_seconds, max_seconds),
          invoked |-> <<"mutagen">>]
    ELSE [result |-> validate_duration(get_media_duration_ffprobe(ffprobe),
                                       min_seconds, max_seconds),
          invoked |-> (IF mutagen.kind = "missing" THEN <<>> ELSE <<"mutagen">>)
                        \o <<"ffprobe">>]

\* ---------------------------------------------------- temporary files
SaveOutcomes == {"saved", "no_file", "partial_file"}

\* save_uploaded_file: the path, or None when creating or writing the file raised
save_uploaded_file(outcome) ==
  [path |-> outcome = "saved",
   file |-> IF outcome = "no_file" THEN "none" ELSE "present",
   del |-> FALSE]

default_max_retries == 3

UnlinkOutcomes == {"ok", "permission", "error"}

\* faulty variant: a PermissionError is retried without a limit on the attempts
RECURSIVE DeleteLoopUnbounded(_, _, _)
DeleteLoopUnbounded(attempt, max_retries, outcomes) ==
  IF attempt >= Len(outcomes) THEN [result |-> FALSE, attempts |-> attempt, removed |-> FALSE]
  ELSE IF outcomes[attempt + 1] = "ok"
    THEN [result |-> TRUE, attempts |-> attempt + 1, removed |-> TRUE]
  ELSE IF outcomes[attempt + 1] = "permission"
    THEN DeleteLoopUnbounded(attempt + 1, max_retries, outcomes)
  ELSE [result |-> FALSE, attempts |-> attempt + 1, removed |-> FALSE]

\* the for-loop of safe_delete_file from iteration `attempt` on; outcomes[i] is
\* what the i-th os.unlink does
RECURSIVE DeleteLoop(_, _, _)
DeleteLoop(attempt, max_retries, outcomes) ==
  IF attempt >= max_retries THEN [result |-> FALSE, attempts |-> attempt, removed |-> FALSE]
  ELSE IF outcomes[attempt + 1] = "ok"
    THEN [result |-> TRUE, attempts |-> attempt + 1, removed |-> TRUE]
  ELSE IF outcomes[attempt + 1] = "permission"
    THEN IF attempt < max_retries - 1
           THEN DeleteLoop(attempt + 1, max_retries, outcomes)
           ELSE [result |-> FALSE, attempts |-> attempt + 1, removed |-> FALSE]
  ELSE [result |-> FALSE, attempts |-> attempt + 1, removed |-> FALSE]

\* safe_delete_file(file_path, max_retries)
safe_delete_file(path_given, exists, max_retries, outcomes) ==
  IF ~path_given \/ ~exists
    THEN [result |-> TRUE, attempts |-> 0, removed |-> FALSE]
    ELSE DeleteLoop(0, max_retries, outcomes)

\* a temporary file after safe_delete_file(path) with the default max_retries
after_safe_delete(t, outcomes) ==
  [path |-> t.path,
   file |-> IF safe_delete_file(t.path, t.file = "present", default_max_retries,
                                outcomes).removed
              THEN "deleted" ELSE t.file,
   del |-> TRUE]

\* what the unlink attempts of one safe_delete_file call of a submission do
UnlinkRuns == { <<"permission", "ok", "ok">>,
                <<"permission", "permission", "permission">> }

\* ------------------------------------------------------ submission inputs
MediaExts == {<<".", "P", "N", "G">>, ext_mp4}

AllMediaExts == MediaExts \cup {<<".", "g", "i", "f">>}

AudioExts == {ext_mp3, <<".", "w", "a", "v">>}

VideoDurations == {NoDuration, 2, 10, 12}

AudioDurations == {NoDuration, 4, 5, 16}

categories == <<"Urban daily life", "Rural daily life", "Marketplaces", "Food",
                "Clothing & textiles", "Landscapes & nature", "Transportation",
                "Public spaces & infrastructure", "Agriculture & livestock",
                "Local objects & cultural items">>

\* the uploaded files: the suffix of the name and the length of the recording in
\* seconds, NoDuration for a file no decoder can read
MediaFiles(exts, durations) ==
  {[ext |-> e, seconds |-> d] : e \in exts \ {ext_mp4}, d \in {NoDuration}}
    \cup {[ext |-> e, seconds |-> d] : e \in exts \cap {ext_mp4}, d \in durations}

NoFile == [ext |-> <<>>, seconds |-> NoDuration]

MakeForm(m, mf, media, af, audio, c1, c2, cat) ==
  [mode |-> m, media_file |-> mf, media_ext |-> media.ext, media_seconds |-> media.seconds,
   audio_file |-> af, audio_ext |-> audio.ext, audio_seconds |-> audio.seconds,
   msa_caption |-> c1, sudanese_caption |-> c2, category |-> cat]

\* forms with every required field filled in and recordings of valid length
CompleteForms ==
  {MakeForm(m, TRUE, media, TRUE, [ext |-> ext_mp3, seconds |-> audio_min_seconds],
            <<" ", "m", "s", "a">>, <<"s", "d", " ">>, <<categories[4]>>) :
     m \in Modes, media \in MediaFiles(MediaExts, {video_max_seconds})}

Captions == {<<>>, <<" ">>, <<" ", "m", "s", "a">>}

MaxForms == 2

GoodMedia == [ext |-> ext_mp4, seconds |-> video_max_seconds]

GoodAudio == [ext |-> ext_mp3, seconds |-> audio_min_seconds]

\* forms in which files and texts may be missing
FieldForms ==
  {MakeForm(m, media # NoFile, media, audio # NoFile, audio, c1, c2, cat) :
     m \in Modes, media \in {NoFile, GoodMedia}, audio \in {NoFile, GoodAudio},
     c1 \in Captions, c2 \in Captions, cat \in {<<>>, <<categories[4]>>}}

GoodImage == [ext |-> <<".", "P", "N", "G">>, seconds |-> NoDuration]

\* complete forms with a media file or an audio file of any name and length
FileForms ==
  {MakeForm(m, TRUE, media, TRUE, GoodAudio, <<" ", "m", "s", "a">>, <<"s", "d", " ">>,
            <<categories[4]>>) :
     m \in Modes, media \in MediaFiles(AllMediaExts, VideoDurations)}
  \cup
  {MakeForm(m, TRUE, IF m = "Image" THEN GoodImage ELSE GoodMedia, TRUE, audio,
            <<" ", "m", "s", "a">>, <<"s", "d", " ">>, <<categories[4]>>) :
     m \in Modes,
     audio \in {[ext |-> e, seconds |-> d] : e \in AudioExts, d \in AudioDurations}}

\* forms as the widgets can deliver them
AllForms == FieldForms \cup FileForms

\* the required-field checks of main(), in their order
required_field_errors(f) ==
  (IF ~f.media_file THEN <<"Please upload a media file">> ELSE <<>>)
    \o (IF ~f.audio_file THEN <<"Please upload an audio file">> ELSE <<>>)
    \o (IF Strip(f.msa_caption) = <<>> THEN <<"MSA caption is required">> ELSE <<>>)
    \o (IF Strip(f.sudanese_caption) = <<>>
          THEN <<"Sudanese Arabic caption is required">> ELSE <<>>)
    \o (IF f.category = <<>> THEN <<"Please select a category">> ELSE <<>>)

\* faulty variant: every media file goes to the Images folder
media_folder_path_images(m) == "Images"

media_folder_path(m) == IF m = "Image" THEN "Images" ELSE "Videos"

audio_folder_path(m) ==
  IF m = "Image" THEN "Image_Audio_Transcriptions" ELSE "Video_Audio_Transcriptions"

media_new_name(p) == next_id[p] \o form[p].media_ext

audio_new_name(p) == next_id[p] \o ext_mp3

\* faulty variant: the captions go into the row as they were typed
row_data_untrimmed(p) ==
  << next_id[p],
     <<media_folder_path(form[p].mode), "/">> \o media_new_name(p),
     form[p].msa_caption,
     form[p].sudanese_caption,
     <<audio_folder_path(form[p].mode), "/">> \o audio_new_name(p),
     form[p].category >>

\* row_data of main(): [id, file_link, msa, sudanese, audio_file_link, category]
row_data(p) ==
  << next_id[p],
     <<media_folder_path(form[p].mode), "/">> \o media_new_name(p),
     Strip(form[p].msa_caption),
     Strip(form[p].sudanese_caption),
     <<audio_folder_path(form[p].mode), "/">> \o audio_new_name(p),
     form[p].category >>

\* --------------------------------------------------------- initialization
\* initialize_apis with an existing spreadsheet: it is used as it is
InitializeFound(p) ==
  /\ ~initialized[p]
  /\ sheet_exists
  /\ initialized' = [initialized EXCEPT ![p] = TRUE]
  /\ UNCHANGED <<sheet_exists, tabs, drive, pc, form, max_id, next_id, steps,
                 message, sid, started, errors, tmp, call>>

\* initialize_apis when no spreadsheet is found: create_spreadsheet creates it,
\* appends the header to Images, then to Videos, then moves it to the parent
\* folder.  A call that raises ends create_spreadsheet where it is, leaves what
\* was done so far behind and the session uninitialized (st.stop).
CreateOutcomes == {"create_raises", "first_header_raises", "second_header_raises",
                   "move_raises", "created"}

\* faulty variant: only the Images tab ever gets its header row
TabsWithHeaderImagesOnly(outcome) ==
  IF outcome \in {"create_raises", "first_header_raises"} THEN {} ELSE {"Images"}

TabsWithHeader(outcome) ==
  IF outcome \in {"create_raises", "first_header_raises"} THEN {}
  ELSE IF outcome = "second_header_raises" THEN {"Images"}
  ELSE {"Images", "Videos"}

InitializeCreate(p) ==
  /\ ~initialized[p]
  /\ ~sheet_exists
  /\ \E outcome \in CreateOutcomes :
       /\ sheet_exists' = (outcome # "create_raises")
       /\ tabs' = [t \in TabNames |->
                     IF t \in TabsWithHeader(outcome) THEN append_row(tabs[t], headers)
                     ELSE tabs[t]]
       /\ initialized' = [initialized EXCEPT ![p] = (outcome = "created")]
  /\ UNCHANGED <<drive, pc, form, max_id, next_id, steps, message, sid, started,
                 errors, tmp, call>>

\* ------------------------------------------------------------- submission
\* faulty variant: the error is reported but main() does not return
FailWithoutReturn(p) ==
  /\ message' = [message EXCEPT ![p] = "error"]
  /\ pc' = pc

Fail(p) ==
  /\ message' = [message EXCEPT ![p] = "error"]
  /\ pc' = [pc EXCEPT ![p] = "done"]

Pass(p, step, next) ==
  /\ steps' = [steps EXCEPT ![p] = Append(@, step)]
  /\ pc' = [pc EXCEPT ![p] = next]

\* faulty variant: the temporary files are left where they are
KeepTemps(p) == tmp' = tmp

\* safe_delete_file(media_temp_path); safe_delete_file(audio_temp_path)
DeleteTemps(p) ==
  \E o1 \in UnlinkRuns, o2 \in UnlinkRuns :
    tmp' = [tmp EXCEPT ![p] = [media |-> after_safe_delete(@.media, o1),
                               audio |-> after_safe_delete(@.audio, o2)]]

\* faulty variant: a form with missing fields is processed all the same
blocked_never(errs) == FALSE

\* `if errors:` of main()
blocked(errs) == errs # <<>>

\* the form f is submitted: the required fields are checked, and the
\* submission is processed only when none is missing
SubmitForm(p, f, limit) ==
  /\ initialized[p]
  /\ pc[p] \in {"idle", "done"}
  /\ started < limit
  /\ started' = started + 1
  /\ sid' = [sid EXCEPT ![p] = started + 1]
  /\ form' = [form EXCEPT ![p] = f]
  /\ errors' = [errors EXCEPT ![p] = required_field_errors(f)]
  /\ steps' = [steps EXCEPT ![p] = <<>>]
  /\ max_id' = [max_id EXCEPT ![p] = 0]
  /\ next_id' = [next_id EXCEPT ![p] = <<>>]
  /\ tmp' = [tmp EXCEPT ![p] = NoTemps]
  /\ IF blocked(required_field_errors(f))
       THEN /\ message' = [message EXCEPT ![p] = "error"]
            /\ pc' = [pc EXCEPT ![p] = "done"]
       ELSE /\ message' = [message EXCEPT ![p] = "none"]
            /\ pc' = [pc EXCEPT ![p] = "save"]
  /\ UNCHANGED <<sheet_exists, tabs, drive, initialized, call>>

\* a contributor submits a form with every required field present
Submit(p) == \E f \in CompleteForms : SubmitForm(p, f, MaxSubmissions)

\* a contributor submits whatever the form holds
SubmitAny(p) == \E f \in AllForms : SubmitForm(p, f, MaxForms)

\* both files are saved; when one could not be saved main() returns at once
SaveFiles(p) ==
  /\ pc[p] = "save"
  /\ \E om \in SaveOutcomes, oa \in SaveOutcomes :
       /\ tmp' = [tmp EXCEPT ![p] = [media |-> save_uploaded_file(om),
                                     audio |-> save_uploaded_file(oa)]]
       /\ IF om = "saved" /\ oa = "saved"
            THEN pc' = [pc EXCEPT ![p] = "media_format"] /\ UNCHANGED message
            ELSE Fail(p)
  /\ UNCHANGED <<sheet_exists, tabs, drive, initialized, form, max_id, next_id, steps,
                 sid, started, errors, call>>

ValidateMediaFormat(p) ==
  /\ pc[p] = "media_format"
  /\ IF validate_media_file(tmp[p].media.file = "present", temp_path(form[p].media_ext),
                            Lower(mode_chars(form[p].mode)))
       THEN Pass(p, "media_format", "audio_format") /\ UNCHANGED <<message, tmp>>
       ELSE Fail(p) /\ DeleteTemps(p) /\ UNCHANGED steps
  /\ UNCHANGED <<sheet_exists, tabs, drive, initialized, form, max_id, next_id, sid,
                 started, errors, call>>

\* faulty variant: the video duration check is not limited to Video mode
after_audio_format_any_mode(m) == "video_duration"

after_audio_format(m) == IF m = "Video" THEN "video_duration" ELSE "audio_duration"

\* the audio file was saved with the suffix '.mp3', whatever its name
ValidateAudioFormat(p) ==
  /\ pc[p] = "audio_format"
  /\ IF validate_audio_file(tmp[p].audio.file = "present", temp_path(ext_mp3))
       THEN Pass(p, "audio_format", after_audio_format(form[p].mode))
            /\ UNCHANGED <<message, tmp>>
       ELSE Fail(p) /\ DeleteTemps(p) /\ UNCHANGED steps
  /\ UNCHANGED <<sheet_exists, tabs, drive, initialized, form, max_id, next_id, sid,
                 started, errors, call>>

VersionRuns == {"ok", "missing", "timeout"}

ValidateVideoDuration(p) ==
  /\ pc[p] = "video_duration"
  /\ \E version \in VersionRuns :
     \E ffprobe \in RunsAfter(version = "ok", {form[p].media_seconds}) :
       IF validate_video_duration(version, ffprobe, video_min_seconds,
                                  video_max_seconds).result[1]
         THEN Pass(p, "video_duration", "audio_duration") /\ UNCHANGED <<message, tmp>>
         ELSE Fail(p) /\ DeleteTemps(p) /\ UNCHANGED steps
  /\ UNCHANGED <<sheet_exists, tabs, drive, initialized, form, max_id, next_id, sid,
                 started, errors, call>>

ValidateAudioDuration(p) ==
  /\ pc[p] = "audio_duration"
  /\ \E mutagen \in DecoderRuns(SubmissionFailures, {form[p].audio_seconds}) :
     \E ffprobe \in RunsAfter(mutagen.kind # "ok", {form[p].audio_seconds}) :
       IF validate_audio_duration(mutagen, ffprobe, audio_min_seconds,
                                  audio_max_seconds).result[1]
         THEN Pass(p, "audio_duration", "allocate") /\ UNCHANGED <<message, tmp>>
         ELSE Fail(p) /\ DeleteTemps(p) /\ UNCHANGED steps
  /\ UNCHANGED <<sheet_exists, tabs, drive, initialized, form, max_id, next_id, sid,
                 started, errors, call>>

\* get_next_id(mode) as called from main(): the ledger is read, nothing is written
GetNextId(p) ==
  /\ pc[p] = "allocate"
  /\ max_id' = [max_id EXCEPT ![p] = get_max_id(tabs, form[p].mode)]
  /\ next_id' = [next_id EXCEPT ![p] = get_next_id(tabs, form[p].mode)]
  /\ Pass(p, "allocate", "upload_media")
  /\ UNCHANGED <<sheet_exists, tabs, drive, initialized, form, message, sid, started,
                 errors, tmp, call>>

\* faulty variant: the upload returns without the file being stored
upload_file_lost(files, file_name, folder, owner) == files

\* drive_api.upload_file: a new file of that name in that folder
upload_file(files, file_name, folder, owner) ==
  files \cup {[folder |-> folder, name |-> file_name, sid |-> owner]}

UploadMedia(p) ==
  /\ pc[p] = "upload_media"
  /\ drive' = upload_file(drive, media_new_name(p), media_folder_path(form[p].mode), sid[p])
  /\ Pass(p, "upload_media", "upload_audio")
  /\ UNCHANGED <<sheet_exists, tabs, initialized, form, max_id, next_id, message, sid,
                 started, errors, tmp, call>>

UploadAudio(p) ==
  /\ pc[p] = "upload_audio"
  /\ drive' = upload_file(drive, audio_new_name(p), audio_folder_path(form[p].mode), sid[p])
  /\ Pass(p, "upload_audio", "append")
  /\ UNCHANGED <<sheet_exists, tabs, initialized, form, max_id, next_id, message, sid,
                 started, errors, tmp, call>>

AppendRow(p) ==
  /\ pc[p] = "append"
  /\ tabs' = [tabs EXCEPT ![sheet_name(form[p].mode)] = append_row(@, row_data(p))]
  /\ Pass(p, "append", "cleanup")
  /\ UNCHANGED <<sheet_exists, drive, initialized, form, max_id, next_id, message, sid,
                 started, errors, tmp, call>>

\* after append_row returned: the temporary files are deleted, then st.success
Finish(p) ==
  /\ pc[p] = "cleanup"
  /\ DeleteTemps(p)
  /\ steps' = [steps EXCEPT ![p] = Append(@, "delete_temp")]
  /\ message' = [message EXCEPT ![p] = "success"]
  /\ pc' = [pc EXCEPT ![p] = "done"]
  /\ UNCHANGED <<sheet_exists, tabs, drive, initialized, form, max_id, next_id, sid,
                 started, errors, call>>

\* faulty variant: a call made after append_row raises into the except block
ApiCallSitesAfterAppend == {"allocate", "upload_media", "upload_audio", "append", "cleanup"}

\* faulty variant: the except block deletes the files the submission uploaded
ApiRaisesWithRollback(p) ==
  /\ pc[p] \in {"allocate", "upload_media", "upload_audio", "append"}
  /\ message' = [message EXCEPT ![p] = "error"]
  /\ pc' = [pc EXCEPT ![p] = "done"]
  /\ drive' = {f \in drive : f.sid # sid[p]}
  /\ DeleteTemps(p)
  /\ UNCHANGED <<sheet_exists, tabs, initialized, form, max_id, next_id, steps, sid,
                 started, errors, call>>

\* a call to the ledger or to storage raises: the except block of main() reports
\* the error, deletes the temporary files and the submission ends
ApiCallSites == {"allocate", "upload_media", "upload_audio", "append"}

ApiRaises(p) ==
  /\ pc[p] \in ApiCallSites
  /\ Fail(p)
  /\ DeleteTemps(p)
  /\ UNCHANGED <<sheet_exists, tabs, drive, initialized, form, max_id, next_id,
                 steps, sid, started, errors, call>>

Step(p) ==
  \/ InitializeFound(p)
  \/ InitializeCreate(p)
  \/ Submit(p)
  \/ SaveFiles(p)
  \/ ValidateMediaFormat(p)
  \/ ValidateAudioFormat(p)
  \/ ValidateVideoDuration(p)
  \/ ValidateAudioDuration(p)
  \/ GetNextId(p)
  \/ UploadMedia(p)
  \/ UploadAudio(p)
  \/ AppendRow(p)
  \/ Finish(p)
  \/ ApiRaises(p)

Init ==
  /\ sheet_exists = FALSE
  /\ tabs = NoTabs
  /\ drive = {}
  /\ initialized = [p \in Sessions |-> FALSE]
  /\ pc = [p \in Sessions |-> "idle"]
  /\ form = [p \in Sessions |-> NoForm]
  /\ max_id = [p \in Sessions |-> 0]
  /\ next_id = [p \in Sessions |-> <<>>]
  /\ steps = [p \in Sessions |-> <<>>]
  /\ message = [p \in Sessions |-> "none"]
  /\ sid = [p \in Sessions |-> 0]
  /\ started = 0
  /\ errors = [p \in Sessions |-> <<>>]
  /\ tmp = [p \in Sessions |-> NoTemps]
  /\ call = NoCall

Next == \E p \in Sessions : Step(p)

\* sessions of concurrent contributors
Spec == Init /\ [][Next]_vars

\* submissions strictly one after another: a session moves only while no other
\* session is inside a submission
Quiet(p) == \A q \in Sessions \ {p} : pc[q] \in {"idle", "done"}

NextSeq ==
  \E p \in Sessions :
    \/ Quiet(p) /\ InitializeFound(p)
    \/ Quiet(p) /\ InitializeCreate(p)
    \/ Quiet(p) /\ Submit(p)
    \/ Quiet(p) /\ SaveFiles(p)
    \/ Quiet(p) /\ ValidateMediaFormat(p)
    \/ Quiet(p) /\ ValidateAudioFormat(p)
    \/ Quiet(p) /\ ValidateVideoDuration(p)
    \/ Quiet(p) /\ ValidateAudioDuration(p)
    \/ Quiet(p) /\ GetNextId(p)
    \/ Quiet(p) /\ UploadMedia(p)
    \/ Quiet(p) /\ UploadAudio(p)
    \/ Quiet(p) /\ AppendRow(p)
    \/ Quiet(p) /\ Finish(p)
    \/ Quiet(p) /\ ApiRaises(p)

SpecSeq == Init /\ [][NextSeq]_vars

\* ------------------------------------------- one contributor, any form
NextForm ==
  \/ InitializeFound(1)
  \/ InitializeCreate(1)
  \/ SubmitAny(1)
  \/ SaveFiles(1)
  \/ ValidateMediaFormat(1)
  \/ ValidateAudioFormat(1)
  \/ ValidateVideoDuration(1)
  \/ ValidateAudioDuration(1)
  \/ GetNextId(1)
  \/ UploadMedia(1)
  \/ UploadAudio(1)
  \/ AppendRow(1)
  \/ Finish(1)
  \/ ApiRaises(1)

SpecForm == Init /\ [][NextForm]_vars

\* --------------------------------------------- safe_delete_file on its own
MaxRetries == 3

DeleteCalls ==
  [fn : {"safe_delete_file"}, path_given : BOOLEAN, exists : BOOLEAN,
   max_retries : 0..MaxRetries, outcomes : [1..MaxRetries -> UnlinkOutcomes],
   returned : {FALSE}, result : {FALSE}, attempts : {0}]

\* a submission of session 1 that has uploaded both files and appended its row
\* and is about to delete its temporary files
CleanupForm == CHOOSE f \in CompleteForms : f.mode = "Image" /\ f.media_ext # ext_mp4

InitDelete ==
  /\ sheet_exists = TRUE
  /\ initialized = [p \in Sessions |-> p = 1]
  /\ form = [p \in Sessions |-> IF p = 1 THEN CleanupForm ELSE NoForm]
  /\ errors = [p \in Sessions |-> <<>>]
  /\ tmp = [p \in Sessions |->
              IF p = 1 THEN [media |-> save_uploaded_file("saved"),
                             audio |-> save_uploaded_file("saved")]
              ELSE NoTemps]
  /\ max_id = [p \in Sessions |-> 0]
  /\ next_id = [p \in Sessions |-> IF p = 1 THEN get_next_id(HeaderOnly, "Image") ELSE <<>>]
  /\ sid = [p \in Sessions |-> IF p = 1 THEN 1 ELSE 0]
  /\ started = 1
  /\ steps = [p \in Sessions |->
                IF p = 1 THEN <<"media_format", "audio_format", "audio_duration", "allocate",
                                "upload_media", "upload_audio", "append">>
                ELSE <<>>]
  /\ message = [p \in Sessions |-> "none"]
  /\ pc = [p \in Sessions |-> IF p = 1 THEN "cleanup" ELSE "idle"]
  /\ drive = upload_file(upload_file({}, media_new_name(1), media_folder_path("Image"), 1),
                         audio_new_name(1), audio_folder_path("Image"), 1)
  /\ tabs = [HeaderOnly EXCEPT !["Images"] = append_row(@, row_data(1))]
  /\ call \in DeleteCalls

\* safe_delete_file(file_path, max_retries) is called and returns
ApplyDelete ==
  /\ call.fn = "safe_delete_file"
  /\ ~call.returned
  /\ LET out == safe_delete_file(call.path_given, call.exists, call.max_retries,
                                 call.outcomes)
     IN call' = [call EXCEPT !.returned = TRUE, !.result = out.result,
                             !.attempts = out.attempts]
  /\ UNCHANGED <<sheet_exists, tabs, drive, initialized, pc, form, max_id, next_id,
                 steps, message, sid, started, errors, tmp>>

NextDelete ==
  \/ ApplyDelete
  \/ Finish(1)

SpecDelete == InitDelete /\ [][NextDelete]_vars

\* ------------------------------------------------ the validators on their own
MaxDuration == 16

SampleExts ==
  { <<".", "j", "p", "g">>,
    <<".", "j", "p", "e", "g">>,
    <<".", "p", "n", "g">>,
    <<".", "J", "P", "G">>,
    <<".", "P", "n", "g">>,
    <<".", "m", "p", "4">>,
    <<".", "M", "P", "4">>,
    <<".", "m", "p", "3">>,
    <<".", "M", "p", "3">>,
    <<".", "g", "i", "f">>,
    <<".", "w", "a", "v">>,
    <<".">> }

\* paths with the extension they end in; a dot in a directory name or at the
\* start of the file name begins no extension
SamplePaths ==
  {[path |-> stem \o e, ext |-> e] :
     stem \in {<<"/", "t", "m", "p", "/", "x">>, <<"/", "t", "m", "p", "/", "a", ".", "b", "/", "c">>}, e \in SampleExts \cup {<<>>}}
    \cup {[path |-> <<"/", "t", "m", "p", "/", "a", ".", "t", "a", "r">> \o e, ext |-> e] : e \in SampleExts}
    \cup {[path |-> <<"/", "t", "m", "p", "/", ".", "m", "p", "4">>, ext |-> <<>>], [path |-> <<".", "j", "p", "g">>, ext |-> <<>>]}

SampleFileTypes ==
  {file_type_image, file_type_video, <<"a", "u", "d", "i", "o">>, <<"I", "m", "a", "g", "e">>, <<>>}

MeasuredDurations == 0..MaxDuration

ValidatorCalls ==
  {[fn |-> "validate_media_file", exists |-> x, file |-> f, file_type |-> t,
    returned |-> FALSE, out |-> FALSE] :
     x \in BOOLEAN, f \in SamplePaths, t \in SampleFileTypes}
  \cup
  {[fn |-> "validate_audio_file", exists |-> x, file |-> f,
    returned |-> FALSE, out |-> FALSE] : x \in BOOLEAN, f \in SamplePaths}
  \cup
  {[fn |-> "validate_video_duration", version |-> v, ffprobe |-> r,
    returned |-> FALSE, out |-> FALSE] :
     v \in VersionRuns \cup {"nonzero"},
     r \in DecoderRuns(DecoderFailures, MeasuredDurations)}
  \cup
  {[fn |-> "validate_audio_duration", mutagen |-> m, ffprobe |-> r,
    returned |-> FALSE, out |-> FALSE] :
     m \in DecoderRuns(DecoderFailures, MeasuredDurations),
     r \in DecoderRuns(DecoderFailures, MeasuredDurations)}

InitValidators ==
  /\ sheet_exists = FALSE
  /\ tabs = NoTabs
  /\ drive = {}
  /\ initialized = [p \in Sessions |-> FALSE]
  /\ pc = [p \in Sessions |-> "idle"]
  /\ form = [p \in Sessions |-> NoForm]
  /\ max_id = [p \in Sessions |-> 0]
  /\ next_id = [p \in Sessions |-> <<>>]
  /\ steps = [p \in Sessions |-> <<>>]
  /\ message = [p \in Sessions |-> "none"]
  /\ sid = [p \in Sessions |-> 0]
  /\ started = 0
  /\ errors = [p \in Sessions |-> <<>>]
  /\ tmp = [p \in Sessions |-> NoTemps]
  /\ call \in ValidatorCalls

Return(out) ==
  /\ call' = [call EXCEPT !.returned = TRUE, !.out = out]
  /\ UNCHANGED <<sheet_exists, tabs, drive, initialized, pc, form, max_id, next_id,
                 steps, message, sid, started, errors, tmp>>

CallValidateMediaFile ==
  /\ call.fn = "validate_media_file" /\ ~call.returned
  /\ Return(validate_media_file(call.exists, call.file.path, call.file_type))

CallValidateAudioFile ==
  /\ call.fn = "validate_audio_file" /\ ~call.returned
  /\ Return(validate_audio_file(call.exists, call.file.path))

CallValidateVideoDuration ==
  /\ call.fn = "validate_video_duration" /\ ~call.returned
  /\ Return(validate_video_duration(call.version, call.ffprobe, video_min_seconds,
                                    video_max_seconds))

CallValidateAudioDuration ==
  /\ call.fn = "validate_audio_duration" /\ ~call.returned
  /\ Return(validate_audio_duration(call.mutagen, call.ffprobe, audio_min_seconds,
                                    audio_max_seconds))

NextValidators ==
  \/ CallValidateMediaFile
  \/ CallValidateAudioFile
  \/ CallValidateVideoDuration
  \/ CallValidateAudioDuration

SpecValidators == InitValidators /\ [][NextValidators]_vars

\* ------------------------------------------------- the folders in storage
\* Storage lists its folders in an order of its own, which stays as it is while
\* storage is unchanged; a folder is [id, name, parent], parent 0 for none.
MaxFolders == 2

MaxRuns == 2

parent_folder_name == "Sudan_MM"

subfolders == <<"Images", "Videos", "Image_Audio_Transcriptions",
                "Video_Audio_Transcriptions">>

FolderNames == {parent_folder_name, subfolders[1], subfolders[2]}

NoFolder == 0

\* find_folder_by_name: the first folder listed for the query; the parent is in
\* the query only when one is given
find_folder_by_name(folders, folder_name, parent_id) ==
  LET Matches(f) == f.name = folder_name /\ (parent_id = NoFolder \/ f.parent = parent_id)
      found == SelectSeq(folders, Matches)
  IN IF found # <<>> THEN found[1].id ELSE NoFolder

\* create_folder: a folder with a new ID, listed first or last
create_folder(folders, folder_name, parent_id, first) ==
  LET folder == [id |-> Len(folders) + 1, name |-> folder_name, parent |-> parent_id]
  IN IF first THEN <<folder>> \o folders ELSE Append(folders, folder)

\* faulty variant: a folder is created without looking for one of that name
get_or_create_folder_always(folders, folder_name, parent_id, first) ==
  [id |-> Len(folders) + 1,
   folders |-> create_folder(folders, folder_name, parent_id, first)]

\* get_or_create_folder: the ID, and storage afterwards
get_or_create_folder(folders, folder_name, parent_id, first) ==
  LET folder_id == find_folder_by_name(folders, folder_name, parent_id)
  IN IF folder_id # NoFolder
       THEN [id |-> folder_id, folders |-> folders]
       ELSE [id |-> Len(folders) + 1,
             folders |-> create_folder(folders, folder_name, parent_id, first)]

\* verify_folder_access: raises unless the ID is one of a folder
verify_folder_access(folders, folder_id) ==
  \E i \in 1..Len(folders) : folders[i].id = folder_id

\* the for-loop of setup_folder_structure from subfolder i on; raise_at is the
\* call to storage that raises, counted from 1 for the parent
RECURSIVE SetupSubfolders(_, _, _, _, _, _)
SetupSubfolders(folders, folder_ids, i, parent_id, raise_at, first) ==
  IF i > Len(subfolders) THEN [raised |-> FALSE, folder_ids |-> folder_ids, folders |-> folders]
  ELSE IF raise_at = i + 1 THEN [raised |-> TRUE, folder_ids |-> folder_ids, folders |-> folders]
  ELSE LET got == get_or_create_folder(folders, subfolders[i], parent_id, first)
       IN SetupSubfolders(got.folders, folder_ids @@ (subfolders[i] :> got.id), i + 1,
                          parent_id, raise_at, first)

\* setup_folder_structure(parent_folder_name, parent_folder_id)
setup_folder_structure(folders, parent_name, parent_folder_id, raise_at, first) ==
  IF raise_at = 1 \/ (parent_folder_id # NoFolder /\ ~verify_folder_access(folders, parent_folder_id))
    THEN [raised |-> TRUE, folder_ids |-> <<>>, folders |-> folders]
    ELSE LET got == IF parent_folder_id # NoFolder
                      THEN [id |-> parent_folder_id, folders |-> folders]
                      ELSE get_or_create_folder(folders, parent_name, NoFolder, first)
         IN SetupSubfolders(got.folders, "parent" :> got.id, 1, got.id, raise_at, first)

InitFolders ==
  /\ sheet_exists = FALSE
  /\ tabs = NoTabs
  /\ drive = {}
  /\ initialized = [p \in Sessions |-> FALSE]
  /\ pc = [p \in Sessions |-> "idle"]
  /\ form = [p \in Sessions |-> NoForm]
  /\ max_id = [p \in Sessions |-> 0]
  /\ next_id = [p \in Sessions |-> <<>>]
  /\ steps = [p \in Sessions |-> <<>>]
  /\ message = [p \in Sessions |-> "none"]
  /\ sid = [p \in Sessions |-> 0]
  /\ started = 0
  /\ errors = [p \in Sessions |-> <<>>]
  /\ tmp = [p \in Sessions |-> NoTemps]
  /\ call \in [fn : {"setup_folder_structure"}, parent_folder_id : {NoFolder, 1},
               folders : {<<>>}, by_hand : {0}, runs : {<<>>}]

\* before the application first runs, somebody creates a folder in storage by hand
CreateByHand ==
  /\ call.fn = "setup_folder_structure"
  /\ call.runs = <<>>
  /\ call.by_hand < MaxFolders
  /\ \E name \in FolderNames, parent \in 0..Len(call.folders), first \in BOOLEAN :
       call' = [call EXCEPT !.folders = create_folder(@, name, parent, first),
                            !.by_hand = @ + 1]
  /\ UNCHANGED <<sheet_exists, tabs, drive, initialized, pc, form, max_id, next_id,
                 steps, message, sid, started, errors, tmp>>

\* one run of setup_folder_structure from its first line to its return or raise
RunSetup ==
  /\ call.fn = "setup_folder_structure"
  /\ Len(call.runs) < MaxRuns
  /\ \E raise_at \in 0..(Len(subfolders) + 1), first \in BOOLEAN :
       LET out == setup_folder_structure(call.folders, parent_folder_name,
                                         call.parent_folder_id, raise_at, first)
       IN call' = [call EXCEPT !.folders = out.folders,
                               !.runs = Append(@, [before |-> call.folders,
                                                   raised |-> out.raised,
                                                   folder_ids |-> out.folder_ids])]
  /\ UNCHANGED <<sheet_exists, tabs, drive, initialized, pc, form, max_id, next_id,
                 steps, message, sid, started, errors, tmp>>

NextFolders ==
  \/ CreateByHand
  \/ RunSetup

SpecFolders == InitFolders /\ [][NextFolders]_vars

\* ------------------------------------------------------- authentication
\* credentials as _authenticate looks at them: creds.valid is "has an access
\* token that is not expired"
Credentials == [token : BOOLEAN, expired : BOOLEAN, refresh_token : BOOLEAN]

\* creds = None
NoCreds == [none |-> TRUE]

valid(creds) == creds.token /\ ~creds.expired

\* creds.refresh(Request()) that returned; flow.run_local_server(...) that returned
Refreshed(creds) == [creds EXCEPT !.token = TRUE, !.expired = FALSE]

FreshCreds == [token |-> TRUE, expired |-> FALSE, refresh_token |-> TRUE]

\* token_dict: not given, an empty dictionary, a dictionary that
\* from_authorized_user_info rejects, or a dictionary it makes credentials from
NoTokenDict == [dict |-> "None"]

EmptyTokenDict == [dict |-> "empty"]

MalformedTokenDict == [dict |-> "malformed"]

TokenDicts == {NoTokenDict, EmptyTokenDict, MalformedTokenDict} \cup Credentials

\* the file at token_path: absent, a file pickle.load rejects, or pickled credentials
NoTokenFile == [file |-> "absent"]

CorruptTokenFile == [file |-> "corrupt"]

TokenFiles == {NoTokenFile, CorruptTokenFile} \cup Credentials

\* if self.token_dict:
deployment(token_dict) == token_dict \notin {NoTokenDict, EmptyTokenDict}

RefreshOutcomes == {"refreshed", "raises"}

FlowOutcomes == {"authorized", "raises"}

Raised(error, token_file, events) ==
  [raised |-> TRUE, error |-> error, service |-> NoCreds, token_file |-> token_file,
   events |-> events]

\* build(..., credentials=creds)
Built(creds, token_file, events) ==
  [raised |-> FALSE, error |-> "none", service |-> creds, token_file |-> token_file,
   events |-> events]

\* the first block of both _authenticate methods
LoadCreds(token_dict, token_file) ==
  IF deployment(token_dict)
    THEN IF token_dict = MalformedTokenDict
           THEN [raised |-> TRUE, error |-> "Failed to load credentials from secrets",
                 creds |-> NoCreds]
           ELSE [raised |-> FALSE, error |-> "none", creds |-> token_dict]
  ELSE IF token_file # NoTokenFile
    THEN IF token_file = CorruptTokenFile
           THEN [raised |-> TRUE, error |-> "Failed to load token from file",
                 creds |-> NoCreds]
           ELSE [raised |-> FALSE, error |-> "none", creds |-> token_file]
  ELSE [raised |-> FALSE, error |-> "none", creds |-> NoCreds]

\* if creds and creds.expired and creds.refresh_token
Refreshable(creds) == creds # NoCreds /\ creds.expired /\ creds.refresh_token

\* the re-authentication block of DriveAPI._authenticate
Reauthenticate(token_dict, token_file, credentials_given, flow, events) ==
  IF deployment(token_dict) THEN Raised("No valid token found", token_file, events)
  ELSE IF ~credentials_given
    THEN Raised("No credentials provided for authentication", token_file, events)
  ELSE IF flow = "raises"
    THEN Raised("Failed to authenticate", token_file, Append(events, "flow"))
  ELSE Built(FreshCreds, FreshCreds, events \o <<"flow", "write_token">>)

\* faulty variant: a failed refresh in deployment falls through to the local
\* handling
DriveAPI_authenticate_local_only(token_dict, token_file, credentials_given, refresh, flow) ==
  LET loaded == LoadCreds(token_dict, token_file)
      creds == loaded.creds
  IN IF loaded.raised THEN Raised(loaded.error, token_file, <<>>)
     ELSE IF creds # NoCreds /\ valid(creds) THEN Built(creds, token_file, <<>>)
     ELSE IF Refreshable(creds)
       THEN IF refresh = "refreshed"
              THEN Built(Refreshed(creds), Refreshed(creds), <<"refresh", "write_token">>)
              ELSE Reauthenticate(NoTokenDict, NoTokenFile, credentials_given, flow,
                                  <<"refresh", "delete_token">>)
     ELSE IF creds = NoCreds
       THEN Reauthenticate(token_dict, token_file, credentials_given, flow, <<>>)
     ELSE Built(creds, token_file, <<>>)

\* DriveAPI._authenticate
DriveAPI_authenticate(token_dict, token_file, credentials_given, refresh, flow) ==
  LET loaded == LoadCreds(token_dict, token_file)
      creds == loaded.creds
  IN IF loaded.raised THEN Raised(loaded.error, token_file, <<>>)
     ELSE IF creds # NoCreds /\ valid(creds) THEN Built(creds, token_file, <<>>)
     ELSE IF Refreshable(creds)
       THEN IF refresh = "refreshed"
              THEN IF deployment(token_dict)
                     THEN Built(Refreshed(creds), token_file, <<"refresh">>)
                     ELSE Built(Refreshed(creds), Refreshed(creds),
                                <<"refresh", "write_token">>)
            ELSE IF deployment(token_dict)
              THEN Raised("Token expired and could not be refreshed", token_file,
                          <<"refresh">>)
            \* os.remove(self.token_path); creds = None; then "if not creds:"
            ELSE Reauthenticate(token_dict, NoTokenFile, credentials_given, flow,
                                <<"refresh", "delete_token">>)
     ELSE IF creds = NoCreds
       THEN Reauthenticate(token_dict, token_file, credentials_given, flow, <<>>)
     \* creds is an object that is neither valid nor refreshable: both ifs are
     \* skipped and the service is built from it
     ELSE Built(creds, token_file, <<>>)

\* SheetsAPI._authenticate
SheetsAPI_authenticate(token_dict, token_file, refresh) ==
  LET loaded == LoadCreds(token_dict, token_file)
      creds == loaded.creds
  IN IF loaded.raised THEN Raised(loaded.error, token_file, <<>>)
     ELSE IF creds # NoCreds /\ valid(creds) THEN Built(creds, token_file, <<>>)
     ELSE IF Refreshable(creds)
       THEN IF refresh = "refreshed"
              THEN IF deployment(token_dict)
                     THEN Built(Refreshed(creds), token_file, <<"refresh">>)
                     ELSE Built(Refreshed(creds), Refreshed(creds),
                                <<"refresh", "write_token">>)
            ELSE IF deployment(token_dict)
              THEN Raised("Token expired and could not be refreshed", token_file,
                          <<"refresh">>)
            ELSE Raised("Authentication failed", token_file, <<"refresh">>)
     ELSE IF deployment(token_dict) THEN Raised("No valid token found", token_file, <<>>)
     ELSE Raised("Not authenticated. Please initialize DriveAPI first.", token_file, <<>>)

NoOut == [raised |-> FALSE, error |-> "none", service |-> NoCreds,
          token_file |-> NoTokenFile, events |-> <<>>]

\* one construction of a client on every token dictionary, token file and
\* credentials path
InitAuth ==
  /\ sheet_exists = FALSE
  /\ tabs = NoTabs
  /\ drive = {}
  /\ initialized = [p \in Sessions |-> FALSE]
  /\ pc = [p \in Sessions |-> "idle"]
  /\ form = [p \in Sessions |-> NoForm]
  /\ max_id = [p \in Sessions |-> 0]
  /\ next_id = [p \in Sessions |-> <<>>]
  /\ steps = [p \in Sessions |-> <<>>]
  /\ message = [p \in Sessions |-> "none"]
  /\ sid = [p \in Sessions |-> 0]
  /\ started = 0
  /\ errors = [p \in Sessions |-> <<>>]
  /\ tmp = [p \in Sessions |-> NoTemps]
  /\ call \in [fn : {"_authenticate"}, token_dict : TokenDicts, token_file : TokenFiles,
               credentials_given : BOOLEAN, api : {"none"}, returned : {FALSE},
               out : {NoOut}]

Construct(api, out) ==
  /\ call.fn = "_authenticate"
  /\ ~call.returned
  /\ call' = [call EXCEPT !.api = api, !.returned = TRUE, !.out = out]
  /\ UNCHANGED <<sheet_exists, tabs, drive, initialized, pc, form, max_id, next_id,
                 steps, message, sid, started, errors, tmp>>

ConstructDriveAPI ==
  \E refresh \in RefreshOutcomes, flow \in FlowOutcomes :
    Construct("DriveAPI", DriveAPI_authenticate(call.token_dict, call.token_file,
                                                call.credentials_given, refresh, flow))

ConstructSheetsAPI ==
  \E refresh \in RefreshOutcomes :
    Construct("SheetsAPI", SheetsAPI_authenticate(call.token_dict, call.token_file, refresh))

NextAuth == ConstructDriveAPI \/ ConstructSheetsAPI

SpecAuth == InitAuth /\ [][NextAuth]_vars

\* ------------------------------------------- a session of the dashboard
\* submissions one session makes after its initialization
MaxReruns == 1

\* a field of st.session_state that holds None
NotStored == [none |-> TRUE]

\* lines 26-36: the session state of a new session
NewSession ==
  [initialized |-> FALSE, drive_api |-> NotStored, sheets_api |-> NotStored,
   folder_structure |-> NotStored, spreadsheet_id |-> NotStored]

\* the ID under which the spreadsheet is found or created
the_spreadsheet_id == [spreadsheetId |-> "spreadsheet"]

SpreadsheetOutcomes == CreateOutcomes \cup {"find_raises"}

\* sheets_api.get_or_create_spreadsheet(spreadsheet_name, parent)
get_or_create_spreadsheet(exists, sheets, outcome) ==
  IF outcome = "find_raises"
    THEN [raised |-> TRUE, exists |-> exists, sheets |-> sheets]
  ELSE IF exists
    THEN [raised |-> FALSE, exists |-> exists, sheets |-> sheets]
  ELSE [raised |-> outcome # "created",
        exists |-> outcome # "create_raises",
        sheets |-> [t \in TabNames |->
                      IF t \in TabsWithHeader(outcome) THEN append_row(sheets[t], headers)
                      ELSE sheets[t]]]

\* faulty variant: only the flag is written
StoreFlagOnly(session_state, drive_api, sheets_api, folder_structure, spreadsheet_id) ==
  [session_state EXCEPT !.initialized = TRUE]

\* lines 144-148: the five assignments to st.session_state
Store(session_state, drive_api, sheets_api, folder_structure, spreadsheet_id) ==
  [initialized |-> TRUE, drive_api |-> drive_api, sheets_api |-> sheets_api,
   folder_structure |-> folder_structure, spreadsheet_id |-> spreadsheet_id]

\* what initialize_apis leaves behind when it called st.stop() at a failure
Stopped(failed, env) ==
  [stopped |-> TRUE, failed |-> failed, session_state |-> env.session_state,
   token_file |-> env.token_file, folders |-> env.folders,
   exists |-> env.exists, sheets |-> env.sheets]

\* the two constructions of initialize_apis: with the token of the secrets, or
\* with the OAuth credentials file
ConstructClients(env, refresh, flow, refresh_again) ==
  LET token_dict == IF env.use_secrets THEN env.token_dict ELSE NoTokenDict
      d == DriveAPI_authenticate(token_dict, env.token_file, ~env.use_secrets, refresh, flow)
      s == SheetsAPI_authenticate(token_dict, d.token_file, refresh_again)
  IN IF d.raised THEN [raised |-> TRUE, token_file |-> d.token_file,
                       drive_api |-> NotStored, sheets_api |-> NotStored]
     ELSE [raised |-> s.raised, token_file |-> s.token_file,
           drive_api |-> [api |-> "DriveAPI", credentials |-> d.service],
           sheets_api |-> [api |-> "SheetsAPI", credentials |-> s.service]]

\* initialize_apis(config)
initialize_apis(env, refresh, flow, refresh_again, raise_at, first, outcome) ==
  IF ~env.use_secrets /\ ~env.oauth_file THEN Stopped("oauth_file", env)
  ELSE
    LET clients == ConstructClients(env, refresh, flow, refresh_again)
        env1 == [env EXCEPT !.token_file = clients.token_file]
    IN IF clients.raised THEN Stopped("authentication", env1)
       ELSE
         LET setup == setup_folder_structure(env.folders, parent_folder_name,
                                             env.parent_folder_id, raise_at, first)
             env2 == [env1 EXCEPT !.folders = setup.folders]
         IN IF setup.raised THEN Stopped("folders", env2)
            ELSE
              LET got == get_or_create_spreadsheet(env.exists, env.sheets, outcome)
                  env3 == [env2 EXCEPT !.exists = got.exists, !.sheets = got.sheets]
              IN IF got.raised THEN Stopped("spreadsheet", env3)
                 ELSE [stopped |-> FALSE, failed |-> "none",
                       session_state |-> Store(env.session_state, clients.drive_api,
                                               clients.sheets_api, setup.folder_ids,
                                               the_spreadsheet_id),
                       token_file |-> env3.token_file, folders |-> env3.folders,
                       exists |-> env3.exists, sheets |-> env3.sheets]

NoRun == [ran |-> FALSE, stopped |-> FALSE, failed |-> "none"]

\* a new session of the dashboard, deployed with a token in the secrets or run
\* locally with or without the OAuth credentials file and a token file
InitSession ==
  /\ sheet_exists = FALSE
  /\ tabs = NoTabs
  /\ drive = {}
  /\ initialized = [p \in Sessions |-> FALSE]
  /\ pc = [p \in Sessions |-> "idle"]
  /\ form = [p \in Sessions |-> NoForm]
  /\ max_id = [p \in Sessions |-> 0]
  /\ next_id = [p \in Sessions |-> <<>>]
  /\ steps = [p \in Sessions |-> <<>>]
  /\ message = [p \in Sessions |-> "none"]
  /\ sid = [p \in Sessions |-> 0]
  /\ started = 0
  /\ errors = [p \in Sessions |-> <<>>]
  /\ tmp = [p \in Sessions |-> NoTemps]
  /\ \E use_secrets \in BOOLEAN :
       call \in [fn : {"main"}, use_secrets : {use_secrets},
                 token_dict : IF use_secrets THEN TokenDicts \ {NoTokenDict}
                              ELSE {NoTokenDict},
                 token_file : IF use_secrets THEN {NoTokenFile} ELSE TokenFiles,
                 oauth_file : IF use_secrets THEN {FALSE} ELSE BOOLEAN,
                 parent_folder_id : {NoFolder},
                 folders : {<<>>}, session_state : {NewSession}, last : {NoRun}]

\* a run of main() in a session that is not initialized: initialize_apis is
\* called; when it stops the script the run ends there.  Storage holds only
\* the folders earlier runs created, one of each name, so where a new folder is
\* listed plays no part
InitializeApis ==
  /\ call.fn = "main"
  /\ ~call.session_state.initialized
  /\ \E refresh \in RefreshOutcomes, flow \in FlowOutcomes,
        refresh_again \in RefreshOutcomes,
        raise_at \in 0..(Len(subfolders) + 1), first \in {FALSE},
        outcome \in SpreadsheetOutcomes :
       LET env == [use_secrets |-> call.use_secrets, token_dict |-> call.token_dict,
                   token_file |-> call.token_file, oauth_file |-> call.oauth_file,
                   parent_folder_id |-> call.parent_folder_id, folders |-> call.folders,
                   session_state |-> call.session_state,
                   exists |-> sheet_exists, sheets |-> tabs]
           r == initialize_apis(env, refresh, flow, refresh_again, raise_at, first, outcome)
       IN /\ call' = [call EXCEPT !.session_state = r.session_state,
                                  !.token_file = r.token_file,
                                  !.folders = r.folders,
                                  !.last = [ran |-> TRUE, stopped |-> r.stopped,
                                            failed |-> r.failed]]
          /\ sheet_exists' = r.exists
          /\ tabs' = r.sheets
          /\ initialized' = [initialized EXCEPT ![1] = r.session_state.initialized]
  /\ UNCHANGED <<drive, pc, form, max_id, next_id, steps, message, sid, started,
                 errors, tmp>>

\* a later run of main() with the form submitted
SubmitInSession == \E f \in CompleteForms : SubmitForm(1, f, MaxReruns)

NextSession ==
  \/ InitializeApis
  \/ SubmitInSession
  \/ SaveFiles(1)
  \/ ValidateMediaFormat(1)
  \/ ValidateAudioFormat(1)
  \/ ValidateVideoDuration(1)
  \/ ValidateAudioDuration(1)
  \/ GetNextId(1)
  \/ UploadMedia(1)
  \/ UploadAudio(1)
  \/ AppendRow(1)
  \/ Finish(1)
  \/ ApiRaises(1)

SpecSession == InitSession /\ [][NextSession]_vars

\* ----------------------------------------- ID allocation on arbitrary tabs
\* first cells a tab may hold: written by hand or by the workflow
SampleCells ==
  { <<"i", "m", "g", "_", "1">>,
    <<"i", "m", "g", "_", "2">>,
    <<"i", "m", "g", "_", "1", "0">>,
    <<"v", "i", "d", "_", "2">>,
    <<" ", "i", "m", "g", "_", "4", " ">>,
    <<"i", "m", "g", "_", "x">>,
    <<"i", "m", "g", "_", "3", "_", "x">>,
    <<"v", "i", "d", "_", "7", "_", "x">>,
    <<"i", "m", "g", "_", "-", "5">>,
    <<"i", "m", "g", "_">>,
    <<"i", "m", "g", "3">>,
    <<>> }

SampleRows == {<<c>> : c \in SampleCells} \cup {<<>>, headers}

RECURSIVE SeqsUpTo(_, _)
SeqsUpTo(S, n) ==
  IF n = 0 THEN {<<>>}
  ELSE LET shorter == SeqsUpTo(S, n - 1)
       IN shorter \cup {Append(q, x) : q \in {r \in shorter : Len(r) = n - 1}, x \in S}

TabContents == SeqsUpTo(SampleRows, MaxRows)

\* one call of get_next_id on every bounded content of the mode's tab
InitIds ==
  /\ sheet_exists = TRUE
  /\ \E m \in Modes, rows \in TabContents :
       /\ tabs = [HeaderOnly EXCEPT ![sheet_name(m)] = rows]
       /\ form = [p \in Sessions |-> [NoForm EXCEPT !.mode = m]]
  /\ drive = {}
  /\ initialized = [p \in Sessions |-> TRUE]
  /\ pc = [p \in Sessions |-> IF p = 1 THEN "allocate" ELSE "idle"]
  /\ max_id = [p \in Sessions |-> 0]
  /\ next_id = [p \in Sessions |-> <<>>]
  /\ steps = [p \in Sessions |-> <<>>]
  /\ message = [p \in Sessions |-> "none"]
  /\ sid = [p \in Sessions |-> 0]
  /\ started = 0
  /\ errors = [p \in Sessions |-> <<>>]
  /\ tmp = [p \in Sessions |-> NoTemps]
  /\ call = NoCall

NextIds == \E p \in Sessions : GetNextId(p)

SpecIds == InitIds /\ [][NextIds]_vars

\* ------------------------------------------------- ID allocation: claims
Suffix(cell, m) == SubSeq(Strip(cell), Len(prefix(m)) + 1, Len(Strip(cell)))

\* the ID format of the data model: the mode's prefix followed by decimal digits
WellFormedId(cell, m) == StartsWith(Strip(cell), prefix(m)) /\ AllDigits(Suffix(cell, m))

IdNumber(cell, m) == DecimalValue(Suffix(cell, m), 0)

\* numbers of the well-formed IDs in the first cells of the non-header rows
ExistingNumbers(rows, m) ==
  {IdNumber(rows[i][1], m) : i \in {j \in 2..Len(rows) : rows[j] # <<>> /\ WellFormedId(rows[j][1], m)}}

SetMax(S) == IF S = {} THEN 0 ELSE CHOOSE x \in S : \A y \in S : y <= x

Malformed(row, m) == row = <<>> \/ ~WellFormedId(row[1], m)

RECURSIVE WithoutMalformed(_, _, _)
WithoutMalformed(rows, i, m) ==
  IF i > Len(rows) THEN <<>>
  ELSE (IF i > 1 /\ Malformed(rows[i], m) THEN <<>> ELSE <<rows[i]>>)
         \o WithoutMalformed(rows, i + 1, m)

Allocated(p) == "allocate" \in Range(steps[p])

ModeRows(p) == tabs[sheet_name(form[p].mode)]

\* C1: the number of the ID returned by get_next_id is strictly greater than the
\* number of every well-formed ID of the mode's prefix in a non-header row.
C1_AllocatedExceedsExisting ==
  \A p \in Sessions : Allocated(p) =>
    /\ WellFormedId(next_id[p], form[p].mode)
    /\ \A n \in ExistingNumbers(ModeRows(p), form[p].mode) :
         IdNumber(next_id[p], form[p].mode) > n

C1_Witness ==
  \E p \in Sessions :
    /\ Allocated(p)
    /\ form[p].mode = "Image"
    /\ 10 \in ExistingNumbers(ModeRows(p), "Image")
    /\ 2 \in ExistingNumbers(ModeRows(p), "Image")
    /\ next_id[p] = <<"i", "m", "g", "_", "1", "1">>

\* C2: get_max_id returns the maximum number of the well-formed IDs of the mode
\* in the non-header rows, 0 when there is none, and get_next_id returns the
\* prefix followed by that maximum plus one.
C2_MaxOfWellFormedIds ==
  \A p \in Sessions : Allocated(p) =>
    /\ max_id[p] = SetMax(ExistingNumbers(ModeRows(p), form[p].mode))
    /\ next_id[p] = prefix(form[p].mode) \o PyStr(max_id[p] + 1)

\* C4: malformed rows never change the result of get_max_id: it equals the
\* result on the tab with every malformed non-header row removed.
C4_MalformedRowsIgnored ==
  \A p \in Sessions : Allocated(p) =>
    max_id[p] = get_max_id([tabs EXCEPT ![sheet_name(form[p].mode)] =
                              WithoutMalformed(ModeRows(p), 1, form[p].mode)],
                           form[p].mode)

\* ------------------------------------------------------ workflow: claims
Appended(p) == "append" \in Range(steps[p])

Ended(p) == pc[p] = "done"

FilesOf(p) == {f \in drive : f.sid = sid[p]}

MediaFile(p) ==
  [folder |-> media_folder_path(form[p].mode), name |-> media_new_name(p), sid |-> sid[p]]

AudioFile(p) ==
  [folder |-> audio_folder_path(form[p].mode), name |-> audio_new_name(p), sid |-> sid[p]]

RowsWithId(rows, id) == {i \in 1..Len(rows) : rows[i] # <<>> /\ rows[i][1] = id}

\* rows that are not the header row written by create_spreadsheet
IdRows(rows) == {i \in 1..Len(rows) : rows[i] # headers}

IsPrefix(a, b) == Len(a) <= Len(b) /\ SubSeq(b, 1, Len(a)) = a

ExpectedSteps(m) ==
  <<"media_format", "audio_format">>
    \o (IF m = "Video" THEN <<"video_duration">> ELSE <<>>)
    \o <<"audio_duration", "allocate", "upload_media", "upload_audio", "append",
         "delete_temp">>

\* C3: a call of get_next_id writes nothing to the ledger, and once a submission
\* of a mode has appended its row, a call of get_next_id for that mode returns an
\* ID with a larger number than the appended one.
C3_IdempotentUntilAppend ==
  [][ /\ (\E p \in Sessions : GetNextId(p)) => tabs' = tabs
      /\ \A p \in Sessions :
           Appended(p)' =>
             (next_id_num(tabs, form[p].mode) > IdNumber(next_id[p], form[p].mode))'
    ]_vars

\* C5: two submissions of one mode that read the same maximum hold the same ID,
\* and once both have appended, the tab holds two rows carrying that ID.
C5_SameReadSameId ==
  \A p, q \in Sessions :
    (p # q /\ form[p].mode = form[q].mode) =>
      /\ (Allocated(p) /\ Allocated(q) /\ max_id[p] = max_id[q]) => next_id[p] = next_id[q]
      /\ (Appended(p) /\ Appended(q) /\ next_id[p] = next_id[q]) =>
           Cardinality(RowsWithId(ModeRows(p), next_id[p])) >= 2

C5_Witness ==
  \E p, q \in Sessions :
    /\ p # q
    /\ form[p].mode = form[q].mode
    /\ message[p] = "success" /\ message[q] = "success"
    /\ max_id[p] = max_id[q]
    /\ next_id[p] = next_id[q]
    /\ Cardinality(RowsWithId(ModeRows(p), next_id[p])) = 2

\* C6: with submissions one after another, the numbers of the IDs appended to a
\* tab are strictly increasing in append order, each is at least 1, and no two
\* rows of the tab share an ID.
C6_SequentialIdsIncrease ==
  \A t \in TabNames :
    LET m == IF t = "Images" THEN "Image" ELSE "Video"
    IN /\ \A i \in IdRows(tabs[t]) :
            WellFormedId(tabs[t][i][1], m) /\ IdNumber(tabs[t][i][1], m) >= 1
       /\ \A i, j \in IdRows(tabs[t]) :
            i < j => IdNumber(tabs[t][i][1], m) < IdNumber(tabs[t][j][1], m)

\* an Image submission is never at the video duration check nor past it
NoVideoCheckInImageMode(p) ==
  form[p].mode = "Image" =>
    (pc[p] # "video_duration" /\ "video_duration" \notin Range(steps[p]))

\* C7: the steps of a submission complete in the fixed order, each at most once,
\* the video duration check belongs to Video mode only, and a successful
\* submission has completed all of them.
C7_StepsInOrder ==
  \A p \in Sessions :
    /\ IsPrefix(steps[p], ExpectedSteps(form[p].mode))
    /\ NoVideoCheckInImageMode(p)
    /\ message[p] = "success" => steps[p] = ExpectedSteps(form[p].mode)

C7_Witness ==
  \E p, q \in Sessions :
    /\ message[p] = "success" /\ form[p].mode = "Video" /\ Len(steps[p]) = 9
    /\ message[q] = "success" /\ form[q].mode = "Image" /\ Len(steps[q]) = 8

\* C8: a failed step ends the submission with an error shown and no later step
\* run; a row is appended only after both uploads succeeded, and success is
\* shown only after the append returned.
C8_FailureAborts ==
  [][ \A p \in Sessions :
        /\ (message[p] = "error" /\ sid'[p] = sid[p]) =>
             (steps'[p] = steps[p] /\ pc'[p] = pc[p] /\ FilesOf(p)' = FilesOf(p))
        /\ (Ended(p)' /\ steps'[p] # ExpectedSteps(form'[p].mode)) => message'[p] = "error"
        /\ Appended(p)' =>
             /\ \E i \in 1..(Len(steps'[p]) - 2) :
                  SubSeq(steps'[p], i, i + 2) = <<"upload_media", "upload_audio", "append">>
             /\ {MediaFile(p)', AudioFile(p)'} \subseteq drive'
        /\ message'[p] = "success" => Appended(p)'
    ]_vars

C8_Witness ==
  \E p \in Sessions :
    /\ Ended(p) /\ message[p] = "error"
    /\ steps[p] # <<>> /\ steps[p][Len(steps[p])] = "upload_media"
    /\ FilesOf(p) = {MediaFile(p)}

\* C9 as stated: a submission that ended has either both files uploaded and one
\* row appended, or no file in storage and no row appended.
C9_AllOrNothing ==
  \A p \in Sessions :
    Ended(p) =>
      \/ FilesOf(p) = {MediaFile(p), AudioFile(p)} /\ Appended(p)
      \/ FilesOf(p) = {} /\ ~Appended(p)

\* C9 amended: a submission that ended has either both files uploaded and
\* appended exactly one row for its ID, or appended no row; in the second case
\* the files it had uploaded before the failure are still in storage.
C9_RowAllOrNothing ==
  \A p \in Sessions :
    Ended(p) =>
      \/ /\ message[p] = "success"
         /\ FilesOf(p) = {MediaFile(p), AudioFile(p)}
         /\ Cardinality({i \in 1..Len(steps[p]) : steps[p][i] = "append"}) = 1
         /\ \E i \in 1..Len(ModeRows(p)) : ModeRows(p)[i] = row_data(p)
      \/ /\ message[p] = "error"
         /\ ~Appended(p)
         /\ FilesOf(p) \in {{}, {MediaFile(p)}, {MediaFile(p), AudioFile(p)}}
         /\ ("upload_media" \in Range(steps[p])) = (MediaFile(p) \in drive)
         /\ ("upload_audio" \in Range(steps[p])) = (AudioFile(p) \in drive)

C9_Witness ==
  \E p, q \in Sessions :
    /\ Ended(p) /\ message[p] = "error" /\ FilesOf(p) = {MediaFile(p)}
    /\ Ended(q) /\ message[q] = "success" /\ FilesOf(q) = {MediaFile(q), AudioFile(q)}

\* C10: no step removes a file from storage, and a submission that failed after
\* an upload keeps its uploaded files in storage and appends no row.
C10_NoRollback ==
  [][ /\ drive \subseteq drive'
      /\ \A p \in Sessions :
           (Ended(p)' /\ message'[p] = "error") =>
             /\ ~Appended(p)'
             /\ ("upload_media" \in Range(steps'[p])) => MediaFile(p)' \in drive'
             /\ ("upload_audio" \in Range(steps'[p])) => AudioFile(p)' \in drive'
    ]_vars

C10_Witness ==
  \E p \in Sessions :
    /\ Ended(p) /\ message[p] = "error"
    /\ FilesOf(p) = {MediaFile(p), AudioFile(p)}
    /\ RowsWithId(ModeRows(p), next_id[p]) = {}

\* the temporary files of the submission of session p that exist or existed
Created(p) == {k \in {"media", "audio"} : tmp[p][k].file # "none"}

\* C11: whenever a submission has ended, on any exit path, safe_delete_file has
\* been invoked on every temporary file the submission created
C11_TempFilesCleanedUp ==
  \A p \in Sessions :
    Ended(p) => \A k \in Created(p) : tmp[p][k].del

\* an unlink attempt of the call succeeded: the last attempt made removed the file
AttemptSucceeded ==
  call.attempts >= 1 /\ call.outcomes[call.attempts] = "ok"

\* C12: safe_delete_file returns after at most max_retries unlink attempts with
\* True or False; True exactly when the path is empty, the file is absent or an
\* attempt succeeded; and a submission whose row is appended ends with the
\* success message and its row in the ledger whether or not its temporary
\* files could be deleted
C12_DeleteBoundedNonFatal ==
  /\ (call.fn = "safe_delete_file" /\ call.returned) =>
       /\ call.attempts <= call.max_retries
       /\ call.result \in BOOLEAN
       /\ call.result <=> (~call.path_given \/ ~call.exists \/ AttemptSucceeded)
  /\ \A p \in Sessions :
       "delete_temp" \in Range(steps[p]) =>
         /\ message[p] = "success"
         /\ Cardinality(RowsWithId(ModeRows(p), next_id[p])) >= 1

\* a call that used up max_retries attempts has returned False, and the
\* submission has ended successfully with a temporary file still on disk
C12_Witness ==
  /\ call.fn = "safe_delete_file" /\ call.returned
  /\ call.max_retries = default_max_retries /\ call.attempts = default_max_retries
  /\ ~call.result
  /\ Ended(1) /\ message[1] = "success" /\ tmp[1].media.file = "present"
  /\ tmp[1].media.del

Blank(text) == \A i \in 1..Len(text) : IsSpace(text[i])

\* the required fields the form f lacks
MissingFields(f) ==
  {k \in {"media_file", "audio_file", "msa_caption", "sudanese_caption", "category"} :
     \/ k = "media_file" /\ ~f.media_file
     \/ k = "audio_file" /\ ~f.audio_file
     \/ k = "msa_caption" /\ Blank(f.msa_caption)
     \/ k = "sudanese_caption" /\ Blank(f.sudanese_caption)
     \/ k = "category" /\ f.category = <<>>}

Submitted(p) == sid[p] > 0

\* C13: a submitted form that lacks a required field is blocked: one error per
\* missing field is reported and the submission is over with no temporary
\* file, no validator run, no ID, no upload; and submitting it changes neither
\* the ledger nor storage
C13_MissingFieldBlocks ==
  /\ [](\A p \in Sessions :
          (Submitted(p) /\ MissingFields(form[p]) # {}) =>
            /\ Len(errors[p]) = Cardinality(MissingFields(form[p]))
            /\ message[p] = "error"
            /\ Ended(p)
            /\ Created(p) = {}
            /\ steps[p] = <<>>
            /\ next_id[p] = <<>>
            /\ FilesOf(p) = {})
  /\ [][\A p \in Sessions :
          (sid'[p] # sid[p] /\ MissingFields(form'[p]) # {}) =>
            (tabs' = tabs /\ drive' = drive)]_vars

\* after a successful submission, a form with only the two captions blank has
\* been submitted and blocked with two errors
C13_Witness ==
  /\ Submitted(1) /\ Ended(1)
  /\ MissingFields(form[1]) = {"msa_caption", "sudanese_caption"}
  /\ form[1].msa_caption # <<>>
  /\ Len(errors[1]) = 2
  /\ \E t \in TabNames : Len(tabs[t]) >= 2

\* the extensions a file of the kind may have
AllowList(kind) ==
  IF kind = "image" THEN {ext_jpg, ext_jpeg, ext_png}
  ELSE IF kind = "video" THEN {ext_mp4}
  ELSE IF kind = "audio" THEN {ext_mp3}
  ELSE {}

MediaKind(m) == IF m = "Image" THEN "image" ELSE "video"

BadMediaExt(f) == Lower(f.media_ext) \notin AllowList(MediaKind(f.mode))

BadAudioExt(f) == Lower(f.audio_ext) \notin AllowList("audio")

Processed(p) == Submitted(p) /\ MissingFields(form[p]) = {}

\* no ledger read, no upload and no append has happened for the submission
NoLedgerOrStorageCall(p) ==
  /\ {"allocate", "upload_media", "upload_audio", "append"} \cap Range(steps[p]) = {}
  /\ next_id[p] = <<>>
  /\ FilesOf(p) = {}

BothTempFilesDeleted(p) ==
  \A k \in {"media", "audio"} : tmp[p][k].file = "deleted"

\* C14: a submission whose media file or audio file has an extension outside
\* its allow-list makes no ledger read, no upload and no append, and when it
\* has ended the error is reported and both temporary files are deleted
C14_BadExtensionRejected ==
  \A p \in Sessions :
    (Processed(p) /\ (BadMediaExt(form[p]) \/ BadAudioExt(form[p]))) =>
      /\ NoLedgerOrStorageCall(p)
      /\ Ended(p) => (message[p] = "error" /\ BothTempFilesDeleted(p))

InBounds(d, min_seconds, max_seconds) ==
  d # NoDuration /\ min_seconds <= d /\ d <= max_seconds

\* the video (Video mode) or the audio recording is too short, too long or
\* cannot be read
BadDuration(f) ==
  \/ f.mode = "Video" /\ ~InBounds(f.media_seconds, video_min_seconds, video_max_seconds)
  \/ ~InBounds(f.audio_seconds, audio_min_seconds, audio_max_seconds)

BothSaved(p) == tmp[p].media.path /\ tmp[p].audio.path

Returned(fn) == call.fn = fn /\ call.returned

\* the duration the decoders of the call measured, NoDuration when none did
Measured ==
  IF call.fn = "validate_video_duration"
    THEN IF call.version \notin {"missing", "timeout"} /\ call.ffprobe.kind = "ok"
           THEN call.ffprobe.duration ELSE NoDuration
  ELSE IF call.fn = "validate_audio_duration"
    THEN IF call.mutagen.kind = "ok" THEN call.mutagen.duration
         ELSE IF call.ffprobe.kind = "ok" THEN call.ffprobe.duration
         ELSE NoDuration
  ELSE NoDuration

ClosedInterval(result, d, lo, hi) ==
  /\ result[1] <=> (d # NoDuration /\ lo <= d /\ d <= hi)
  /\ (d # NoDuration /\ d < lo) => (result[2] = "less than minimum" /\ result[3] = d)
  /\ (d # NoDuration /\ d > hi) => (result[2] = "exceeds maximum" /\ result[3] = d)

\* C16: validate_video_duration returns valid exactly when the duration is
\* readable and within 3..10 seconds, validate_audio_duration exactly when it
\* is readable and within 5..15 seconds; a shorter duration gives the "less
\* than minimum" error, a longer one the "exceeds maximum" error, both with
\* the measured duration
C16_ClosedIntervals ==
  /\ Returned("validate_video_duration") => ClosedInterval(call.out.result, Measured, 3, 10)
  /\ Returned("validate_audio_duration") => ClosedInterval(call.out.result, Measured, 5, 15)

\* a video of exactly 3 seconds has been accepted
C16_Witness ==
  /\ Returned("validate_video_duration")
  /\ Measured = 3
  /\ call.out.result = <<TRUE, "", 3>>

\* C17: for an existing file validate_media_file is valid exactly when the
\* lower-cased extension is .jpg, .jpeg or .png for 'image' and .mp4 for
\* 'video', validate_audio_file exactly when it is .mp3; any other file_type
\* is invalid, and so is a path that does not exist
C17_ExtensionAllowList ==
  /\ Returned("validate_media_file") =>
       (call.out <=>
          /\ call.exists
          /\ call.file_type \in {file_type_image, file_type_video}
          /\ \/ call.file_type = file_type_image
                /\ Lower(call.file.ext) \in {<<".", "j", "p", "g">>,
                                             <<".", "j", "p", "e", "g">>,
                                             <<".", "p", "n", "g">>}
             \/ call.file_type = file_type_video
                /\ Lower(call.file.ext) = <<".", "m", "p", "4">>)
  /\ Returned("validate_audio_file") =>
       (call.out <=> (call.exists /\ Lower(call.file.ext) = <<".", "m", "p", "3">>))

\* an existing image whose name ends in .Png has been accepted
C17_Witness ==
  /\ Returned("validate_media_file")
  /\ call.exists /\ call.file_type = file_type_image
  /\ call.file.ext = <<".", "P", "n", "g">>
  /\ call.out

Failed(run) == run.kind # "ok"

TimesInvoked(program) ==
  Cardinality({i \in 1..Len(call.out.invoked) :
                 IF program = "mutagen" THEN call.out.invoked[i] = "mutagen"
                 ELSE call.out.invoked[i] \in {"ffprobe", "ffprobe -version"}})

TimesAsked(entry) ==
  Cardinality({i \in 1..Len(call.out.invoked) : call.out.invoked[i] = entry})

\* a duration validator returns (False, message, None) when the duration could
\* not be obtained, and the audio validator returns that only after mutagen
\* and ffprobe both failed
DecodeFailureReported ==
  /\ (Returned("validate_video_duration") \/ Returned("validate_audio_duration")) =>
       /\ Measured = NoDuration =>
            /\ call.out.result[1] = FALSE
            /\ call.out.result[2] # ""
            /\ call.out.result[3] = NoDuration
  /\ Returned("validate_audio_duration") =>
       (call.out.result[3] = NoDuration =>
          /\ Failed(call.mutagen) /\ Failed(call.ffprobe)
          /\ TimesAsked("ffprobe") = 1)

\* C18 as stated: a decode failure is returned as (False, message, None), for
\* audio only after both decoders failed, and no decoder is invoked more than
\* once in a validation
C18_DecodeFailureInvalid ==
  /\ DecodeFailureReported
  /\ (Returned("validate_video_duration") \/ Returned("validate_audio_duration")) =>
       (TimesInvoked("mutagen") <= 1 /\ TimesInvoked("ffprobe") <= 1)

\* C18 amended: a decode failure is returned as (False, message, None), for
\* audio only after both decoders failed; each decoder is asked for the
\* duration at most once, and validate_video_duration starts ffprobe one more
\* time before that to see whether it is installed
C18_DecodeFailureNoRetry ==
  /\ DecodeFailureReported
  /\ (Returned("validate_video_duration") \/ Returned("validate_audio_duration")) =>
       /\ TimesAsked("mutagen") <= 1 /\ TimesAsked("ffprobe") <= 1
       /\ TimesAsked("ffprobe -version") =
            (IF call.fn = "validate_video_duration" THEN 1 ELSE 0)

\* mutagen raised, the ffprobe fallback timed out, and the audio validation
\* has returned invalid without a duration
C18_Witness ==
  /\ Returned("validate_audio_duration")
  /\ call.mutagen.kind = "nonzero" /\ call.ffprobe.kind = "timeout"
  /\ call.out.result[1] = FALSE /\ call.out.result[3] = NoDuration
  /\ call.out.invoked = <<"mutagen", "ffprobe">>

\* C19: a step changes a tab only by adding one row below its rows: the rows
\* that were there stay, unchanged and in their order, and no tab gets shorter
C19_AppendOnly ==
  [][\A t \in TabNames :
       /\ IsPrefix(tabs[t], tabs'[t])
       /\ Len(tabs'[t]) >= Len(tabs[t])
       /\ Len(tabs'[t]) <= Len(tabs[t]) + 1]_vars

\* two submissions have appended their rows to the same tab
C19_Witness ==
  \E t \in TabNames :
    /\ Len(tabs[t]) >= 2
    /\ \A p \in Sessions : Appended(p) /\ sheet_name(form[p].mode) = t
    /\ \E i, j \in 1..Len(tabs[t]) :
         i < j /\ tabs[t][i] = row_data(1) /\ tabs[t][j] = row_data(2)

ImgPrefix == <<"i", "m", "g", "_">>

VidPrefix == <<"v", "i", "d", "_">>

\* what the mode of a submission stands for
ModeTable ==
  [Image |-> [prefix |-> ImgPrefix, media_folder |-> "Images",
              audio_folder |-> "Image_Audio_Transcriptions", tab |-> "Images"],
   Video |-> [prefix |-> VidPrefix, media_folder |-> "Videos",
              audio_folder |-> "Video_Audio_Transcriptions", tab |-> "Videos"]]

\* C20: the ID of a submission has the prefix of its mode, its media file and
\* its audio file are in the folders of its mode, its row is in the tab of its
\* mode; no row of the Videos tab has an img_ ID and no row of the Images tab a
\* vid_ ID
C20_ModeConsistent ==
  /\ \A p \in Sessions :
       LET of_mode == ModeTable[form[p].mode]
       IN /\ next_id[p] # <<>> => StartsWith(next_id[p], of_mode.prefix)
          /\ \A f \in FilesOf(p) :
               f.folder = IF f.name = next_id[p] \o ext_mp3 THEN of_mode.audio_folder
                          ELSE of_mode.media_folder
          /\ Appended(p) => RowsWithId(tabs[of_mode.tab], next_id[p]) # {}
  /\ \A i \in 1..Len(tabs["Videos"]) :
       tabs["Videos"][i] # <<>> => ~StartsWith(tabs["Videos"][i][1], ImgPrefix)
  /\ \A i \in 1..Len(tabs["Images"]) :
       tabs["Images"][i] # <<>> => ~StartsWith(tabs["Images"][i][1], VidPrefix)

\* an Image submission and a Video submission have both ended successfully
C20_Witness ==
  /\ \A p \in Sessions : Ended(p) /\ message[p] = "success"
  /\ form[1].mode = "Image" /\ form[2].mode = "Video"
  /\ Cardinality(drive) = 4
  /\ RowsWithId(tabs["Images"], next_id[1]) # {}
  /\ RowsWithId(tabs["Videos"], next_id[2]) # {}

\* text is what is left of typed when the whitespace at both ends is taken away
TrimmedOf(text, typed) ==
  /\ text # <<>>
  /\ ~IsSpace(text[1]) /\ ~IsSpace(text[Len(text)])
  /\ \E i \in 1..Len(typed) :
       /\ text = SubSeq(typed, i, i + Len(text) - 1)
       /\ \A k \in 1..(i - 1) : IsSpace(typed[k])
       /\ \A k \in (i + Len(text))..Len(typed) : IsSpace(typed[k])

LastRow(rows) == rows[Len(rows)]

\* C21: once the only contributor's submission has appended, the last row of
\* its tab is [id, <media folder>/<id><ext>, MSA caption, Sudanese caption,
\* <audio folder>/<id>.mp3, category] with the allocated ID, the extension of
\* the uploaded media file, both captions trimmed and not empty and one of the
\* ten categories, and the two files in storage are named <id><ext> and <id>.mp3
C21_RowAndFileNames ==
  Appended(1) =>
    LET of_mode == ModeTable[form[1].mode]
        row == LastRow(tabs[of_mode.tab])
        id == next_id[1]
    IN /\ Len(row) = 6
       /\ row[1] = id /\ id # <<>>
       /\ row[2] = <<of_mode.media_folder, "/">> \o id \o form[1].media_ext
       /\ TrimmedOf(row[3], form[1].msa_caption)
       /\ TrimmedOf(row[4], form[1].sudanese_caption)
       /\ row[5] = <<of_mode.audio_folder, "/">> \o id \o <<".", "m", "p", "3">>
       /\ \E i \in 1..10 : row[6] = <<categories[i]>>
       /\ {f.name : f \in FilesOf(1)} = {id \o form[1].media_ext,
                                         id \o <<".", "m", "p", "3">>}

\* a video submission with captions typed with spaces around them has succeeded
C21_Witness ==
  /\ Appended(1) /\ message[1] = "success"
  /\ form[1].mode = "Video"
  /\ form[1].msa_caption = <<" ", "m", "s", "a">>
  /\ LastRow(tabs["Videos"])[3] = <<"m", "s", "a">>
  /\ LastRow(tabs["Videos"])[4] = <<"s", "d">>

FolderRuns == IF call.fn = "setup_folder_structure" THEN call.runs ELSE <<>>

\* storage when run i ended
FoldersAfter(i) == IF i < Len(FolderRuns) THEN FolderRuns[i + 1].before ELSE call.folders

\* the folders run i created
CreatedBy(i) ==
  {FoldersAfter(i)[k] : k \in 1..Len(FoldersAfter(i))}
    \ {FolderRuns[i].before[k] : k \in 1..Len(FolderRuns[i].before)}

\* C22: a run of setup_folder_structure that returns gives a mapping with the
\* keys parent, Images, Videos, Image_Audio_Transcriptions and
\* Video_Audio_Transcriptions; a run creates a folder only when storage held no
\* folder of that name under that parent; and a run that follows a returned run
\* creates no folder and, when it returns, returns the same IDs
C22_FolderSetupIdempotent ==
  \A i \in 1..Len(FolderRuns) :
    LET run == FolderRuns[i]
        held == {run.before[k] : k \in 1..Len(run.before)}
    IN /\ ~run.raised =>
            DOMAIN run.folder_ids = {"parent", "Images", "Videos",
                                     "Image_Audio_Transcriptions",
                                     "Video_Audio_Transcriptions"}
       /\ \A c \in CreatedBy(i) :
            ~\E b \in held : b.name = c.name /\ (c.parent = NoFolder \/ b.parent = c.parent)
       /\ (i > 1 /\ ~FolderRuns[i - 1].raised) =>
            /\ CreatedBy(i) = {}
            /\ ~run.raised => run.folder_ids = FolderRuns[i - 1].folder_ids

\* two runs have returned; the first found a folder made by hand and created
\* the others, the second created none
C22_Witness ==
  /\ Len(FolderRuns) = 2
  /\ ~FolderRuns[1].raised /\ ~FolderRuns[2].raised
  /\ FolderRuns[1].before # <<>>
  /\ \E b \in CreatedBy(1) : TRUE
  /\ Cardinality(CreatedBy(1)) < 5
  /\ CreatedBy(2) = {}
  /\ FolderRuns[2].folder_ids = FolderRuns[1].folder_ids

\* C23: a session whose initialization found the spreadsheet leaves every tab
\* as it was; a session whose initialization created it leaves a spreadsheet
\* with the tabs Images and Videos and nothing else, each holding the one row
\* [id, file_link, msa_caption, sudanese_caption, audio_file_link, category],
\* and get_max_id is 0 for both modes on it
C23_GetOrCreateSpreadsheet ==
  [][\A p \in Sessions :
       (~initialized[p] /\ initialized'[p]) =>
         IF sheet_exists
           THEN sheet_exists' /\ tabs' = tabs
           ELSE /\ sheet_exists'
                /\ DOMAIN tabs' = {"Images", "Videos"}
                /\ \A t \in DOMAIN tabs' :
                     tabs'[t] = << << <<"id">>, <<"file_link">>, <<"msa_caption">>,
                                      <<"sudanese_caption">>, <<"audio_file_link">>,
                                      <<"category">> >> >>
                /\ \A m \in Modes : get_max_id(tabs', m) = 0]_vars

\* one session created the spreadsheet and appended a row to it; the other
\* found it afterwards and has not submitted anything
C23_Witness ==
  /\ \A p \in Sessions : initialized[p]
  /\ \E p \in Sessions : pc[p] = "idle" /\ steps[p] = <<>>
  /\ \E t \in TabNames : Len(tabs[t]) = 2 /\ tabs[t][1] = headers
  /\ \E t \in TabNames : tabs[t] = <<headers>>

OtherMode(m) == IF m = "Image" THEN "Video" ELSE "Image"

FoldersOf(m) == {ModeTable[m].media_folder, ModeTable[m].audio_folder}

\* the rows whose ID cell carries the prefix of the other mode, emptied
WithoutOtherPrefix(rows, m) ==
  [i \in 1..Len(rows) |->
     IF rows[i] # <<>> /\ StartsWith(Strip(rows[i][1]), prefix(OtherMode(m)))
       THEN <<>> ELSE rows[i]]

\* on every bounded tab, get_max_id is the same with and without the rows that
\* carry the other mode's prefix
OtherPrefixIgnored ==
  \A m \in Modes, rows \in TabContents :
    get_max_id([HeaderOnly EXCEPT ![sheet_name(m)] = rows], m)
      = get_max_id([HeaderOnly EXCEPT ![sheet_name(m)] = WithoutOtherPrefix(rows, m)], m)

\* session p takes a step of its submission
Moves(p) == pc[p] \notin {"idle", "done"} /\ (pc'[p] # pc[p] \/ steps'[p] # steps[p])

\* C24: every step of a submission leaves the other mode's tab, the files in the
\* other mode's two folders and the next ID of the other mode as they were, and
\* changes its own tab only in the append step, by one row at the end; a
\* submission that ended with success has appended once and uploaded exactly
\* two files, one to its media folder and one to its audio folder; rows with
\* the other mode's prefix do not change what get_max_id returns
C24_OnlyOwnModeChanges ==
  /\ [](/\ OtherPrefixIgnored
        /\ \A p \in Sessions :
             (Ended(p) /\ message[p] = "success") =>
               /\ Cardinality({i \in 1..Len(steps[p]) : steps[p][i] = "append"}) = 1
               /\ Cardinality(FilesOf(p)) = 2
               /\ \E f \in FilesOf(p) : f.folder = ModeTable[form[p].mode].media_folder
               /\ \E f \in FilesOf(p) : f.folder = ModeTable[form[p].mode].audio_folder)
  /\ [][\A p \in Sessions :
          Moves(p) =>
            LET m == form[p].mode
                own == ModeTable[m].tab
                other == ModeTable[OtherMode(m)].tab
            IN /\ tabs'[other] = tabs[other]
               /\ {f \in drive' : f.folder \in FoldersOf(OtherMode(m))}
                    = {f \in drive : f.folder \in FoldersOf(OtherMode(m))}
               /\ get_next_id(tabs', OtherMode(m)) = get_next_id(tabs, OtherMode(m))
               /\ IF pc[p] = "append" /\ "append" \in Range(steps'[p])
                    THEN /\ Len(tabs'[own]) = Len(tabs[own]) + 1
                         /\ SubSeq(tabs'[own], 1, Len(tabs[own])) = tabs[own]
                    ELSE tabs'[own] = tabs[own]]_vars

\* a Video submission has ended with success after an Image submission did:
\* each tab holds the header and one row, each of the four folders one file
C24_Witness ==
  /\ \A p \in Sessions : Ended(p) /\ message[p] = "success"
  /\ form[1].mode = "Image" /\ form[2].mode = "Video"
  /\ \A t \in TabNames : Len(tabs[t]) = 2 /\ tabs[t][1] = headers
  /\ \A m \in Modes : \A d \in FoldersOf(m) : Cardinality({f \in drive : f.folder = d}) = 1

\* the links "<folder>/<name>" of the files in storage
StoredLinks == {<<f.folder, "/">> \o f.name : f \in drive}

\* C25: in every state, every row of a tab other than the header row names in
\* its second cell a media file and in its fifth cell an audio file that are in
\* storage: <media folder>/<id><ext> and <audio folder>/<id>.mp3 with the ID of
\* the row and the folders of the tab's mode
C25_RowsHaveTheirFiles ==
  \A m \in Modes :
    LET rows == tabs[ModeTable[m].tab]
    IN \A i \in IdRows(rows) :
         /\ rows[i][2] \in StoredLinks
         /\ rows[i][5] \in StoredLinks
         /\ \E f \in drive :
              /\ f.folder = ModeTable[m].media_folder
              /\ \E ext \in AllMediaExts : f.name = rows[i][1] \o ext
              /\ rows[i][2] = <<f.folder, "/">> \o f.name
         /\ \E f \in drive :
              /\ f.folder = ModeTable[m].audio_folder
              /\ f.name = rows[i][1] \o <<".", "m", "p", "3">>
              /\ rows[i][5] = <<f.folder, "/">> \o f.name

\* two concurrent Video submissions have appended their rows while a later
\* step of one of them is still to come
C25_Witness ==
  /\ \A p \in Sessions : Appended(p) /\ form[p].mode = "Video"
  /\ \E p \in Sessions : pc[p] = "cleanup"
  /\ Cardinality(IdRows(tabs["Videos"])) = 2
  /\ Cardinality(drive) = 4

\* C26: after get_next_id on any bounded tab, the maximum it read is 0 when the
\* tab has at most one row, is the same whatever the first row of the tab
\* holds, and the ID it returned is the prefix followed by that maximum plus one
C26_FirstRowDiscarded ==
  "allocate" \in Range(steps[1]) =>
    LET m == form[1].mode
        t == sheet_name(m)
        rows == tabs[t]
    IN /\ Len(rows) <= 1 => max_id[1] = 0
       /\ Len(rows) >= 1 =>
            \A r \in SampleRows :
              get_max_id([tabs EXCEPT ![t] = [rows EXCEPT ![1] = r]], m) = max_id[1]
       /\ next_id[1] = prefix(m) \o PyStr(max_id[1] + 1)

\* the only row of the Images tab is the well-formed row img_1: the maximum
\* read is 0 and the ID returned is img_1 again
C26_Witness ==
  /\ "allocate" \in Range(steps[1])
  /\ form[1].mode = "Image"
  /\ tabs["Images"] = << << <<"i", "m", "g", "_", "1">> >> >>
  /\ max_id[1] = 0
  /\ next_id[1] = tabs["Images"][1][1]

Constructed(api) == call.fn = "_authenticate" /\ call.returned /\ call.api = api

\* C28: when the construction of a DriveAPI or SheetsAPI client returned, the
\* service was built from valid credentials; and when the credentials loaded
\* were not valid and not refreshable, or their refresh raised, the construction
\* raised or, for DriveAPI without token dictionary, ran the interactive flow
C28_OnlyValidCredentials ==
  \A api \in {"DriveAPI", "SheetsAPI"} :
    Constructed(api) =>
      LET loaded == LoadCreds(call.token_dict, call.token_file)
      IN /\ ~call.out.raised => (call.out.service # NoCreds /\ valid(call.out.service))
         /\ (/\ ~loaded.raised
             /\ (loaded.creds = NoCreds \/ ~valid(loaded.creds))
             /\ "refresh" \notin Range(call.out.events)) =>
              \/ call.out.raised
              \/ /\ api = "DriveAPI" /\ ~deployment(call.token_dict)
                 /\ "flow" \in Range(call.out.events)

Happened(event) == event \in Range(call.out.events)

\* C29: a construction with a token dictionary never runs the interactive flow
\* and leaves the token file as it was, and when its refresh raised the error is
\* 'Token expired and could not be refreshed', for DriveAPI and SheetsAPI alike;
\* SheetsAPI never runs the interactive flow; the token file is deleted, and the
\* flow run after a refresh, only by DriveAPI without token dictionary
C29_DeploymentNeverInteractive ==
  \A api \in {"DriveAPI", "SheetsAPI"} :
    Constructed(api) =>
      /\ deployment(call.token_dict) =>
           /\ ~Happened("flow") /\ ~Happened("write_token") /\ ~Happened("delete_token")
           /\ call.out.token_file = call.token_file
           /\ (Happened("refresh") /\ call.out.raised) =>
                call.out.error = "Token expired and could not be refreshed"
      /\ api = "SheetsAPI" => ~Happened("flow")
      /\ (Happened("delete_token") \/ (Happened("refresh") /\ Happened("flow"))) =>
           (api = "DriveAPI" /\ ~deployment(call.token_dict))

\* DriveAPI was constructed with a token dictionary of expired credentials
\* while a token file lay on disk; the refresh raised
C29_Witness ==
  /\ Constructed("DriveAPI")
  /\ call.token_dict \in Credentials
  /\ call.token_file \in Credentials
  /\ call.credentials_given
  /\ call.out.events = <<"refresh">>
  /\ call.out.raised
  /\ call.out.token_file = call.token_file

SessionFields == {"drive_api", "sheets_api", "folder_structure", "spreadsheet_id"}

\* C27: in a session of the dashboard, initialized is True only when drive_api,
\* sheets_api, folder_structure and spreadsheet_id are all stored; after a run
\* of initialize_apis that stopped at the authentication, the folder setup or
\* the spreadsheet, initialized is False and none of the four is stored; a
\* submission is under way or was made only in an initialized session; and once
\* initialized is True no later step runs initialize_apis or changes what is
\* stored
C27_SessionInitialization ==
  /\ [](call.fn = "main" =>
          LET session_state == call.session_state
          IN /\ session_state.initialized =>
                  \A field \in SessionFields : session_state[field] # NotStored
             /\ (call.last.ran /\ call.last.stopped) =>
                  /\ call.last.failed \in {"oauth_file", "authentication", "folders",
                                           "spreadsheet"}
                  /\ ~session_state.initialized
                  /\ \A field \in SessionFields : session_state[field] = NotStored
             /\ (pc[1] # "idle" \/ started > 0) => session_state.initialized
             /\ initialized[1] = session_state.initialized)
  /\ [][(call.fn = "main" /\ call.session_state.initialized) => call' = call]_vars

\* a local session whose earlier run stopped while the spreadsheet was being
\* created (the Videos tab got no header row) was initialized by a later run
\* and has then completed a submission
C27_Witness ==
  /\ call.fn = "main"
  /\ ~call.use_secrets
  /\ tabs["Images"] # <<>> /\ tabs["Images"][1] = headers
  /\ (tabs["Videos"] = <<>> \/ tabs["Videos"][1] # headers)
  /\ call.session_state.initialized
  /\ call.last.ran /\ ~call.last.stopped
  /\ call.session_state.spreadsheet_id = the_spreadsheet_id
  /\ DOMAIN call.session_state.folder_structure
       = {"parent", "Images", "Videos", "Image_Audio_Transcriptions",
          "Video_Audio_Transcriptions"}
  /\ Ended(1) /\ message[1] = "success"

====
